--------------------------- MODULE MCAccountSync ---------------------------
(***************************************************************************)
(* One note between two devices and the account, for TLC.  The behaviours  *)
(* of an instance that is small in one way and large in another are told   *)
(* apart by `part`.                                                        *)
(***************************************************************************)
EXTENDS AccountSync, TLC

CONSTANTS d1, d2, n1

VARIABLE part

TwoDevices == {d1, d2}
MadeOnFirst == (n1 :> d1)
Calls == TwoDevices \X {"call"}
FirstStray == {<<d1, "stray">>}

\* A conflict after which the saved version is kept.
KeptVersion == INSTANCE AccountSync WITH Slots <- Calls, Unheard <- {}, Removable <- {}, Typists <- {},
    MaxEdits <- 2, MaxLost <- 0, MaxKeeps <- 1,
    MaxSessions <- 1, MaxAsides <- 0, MaxFails <- 0
\* A lost request that is still served, edits that wait before they are saved.
Repeats == INSTANCE AccountSync WITH Slots <- Calls \cup FirstStray, Unheard <- FirstStray, Removable <- {},
    Typists <- {d1}, MaxEdits <- 2, MaxLost <- 1, MaxKeeps <- 0,
    MaxSessions <- 1, MaxAsides <- 0, MaxFails <- 0
\* A device is removed from the account.
Removal == INSTANCE AccountSync WITH Slots <- Calls, Unheard <- {}, Removable <- {d1}, Typists <- {d1},
    MaxEdits <- 2, MaxLost <- 0, MaxKeeps <- 0,
    MaxSessions <- 1, MaxAsides <- 0, MaxFails <- 0
\* Three edits of two devices that write over each other, and a second login: what a sync of the first still does.
Logins == INSTANCE AccountSync WITH Slots <- Calls, Unheard <- {}, Removable <- {}, Typists <- {},
    MaxLost <- 0, MaxKeeps <- 0, MaxEdits <- 3, MaxSessions <- 2, MaxAsides <- 0, MaxFails <- 0
\* A sign-out that fails and is tried again.
Failing == INSTANCE AccountSync WITH Slots <- Calls, Unheard <- {}, Removable <- {}, Typists <- {},
    MaxLost <- 0, MaxKeeps <- 0, MaxEdits <- 2, MaxSessions <- 1, MaxAsides <- 0, MaxFails <- 1
\* A time in Incognito, before, within and after a login.
Asides == INSTANCE AccountSync WITH Slots <- Calls, Unheard <- {}, Removable <- {}, Typists <- {},
    MaxLost <- 0, MaxKeeps <- 0, MaxEdits <- 2, MaxSessions <- 1, MaxAsides <- 1, MaxFails <- 0
\* A login that Incognito offers although the ledger of the last one is held.
Offered == INSTANCE AccountSync WITH Slots <- Calls, Unheard <- {}, Removable <- {}, Typists <- {},
    MaxLost <- 0, MaxKeeps <- 0, MaxEdits <- 1, MaxSessions <- 2, MaxAsides <- 1, MaxFails <- 1

\* In these four the device that made the note stays connected.
FirstStays == ~ private'[d1] /\ (signed[d1] => signed'[d1])

Parts ==
    \/ part = "review" /\ KeptVersion!Init
    \/ part = "repeats" /\ Repeats!Init
    \/ part = "removal" /\ Removal!Init
    \/ part = "logins" /\ Logins!Init
    \/ part = "failing" /\ Failing!Init
    \/ part = "asides" /\ Asides!Init
    \/ part = "offered" /\ Offered!Init

Steps ==
    /\ UNCHANGED part
    /\ \/ part = "review" /\ KeptVersion!Next
       \/ part = "repeats" /\ Repeats!Next
       \/ part = "removal" /\ Removal!Next
       \/ /\ \/ part = "logins" /\ Logins!Next
             \/ part = "failing" /\ Failing!Next
             \/ part = "asides" /\ Asides!Next
             \/ part = "offered" /\ Offered!Next
          /\ FirstStays

Behaviours == Parts /\ [][Steps]_<<vars, part>>
=============================================================================

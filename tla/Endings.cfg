SPECIFICATION Spec
CONSTANTS
    desk = desk
    web = web
PROPERTIES
    WordsArrive
    PhoneEnds
CHECK_DEADLOCK FALSE

SPECIFICATION TouchSpec
CONSTANTS
    NumSlots = 2
    Contacts = {c1, c2}
    NoContact = NoContact
    Positions = {Origin, p}
    Origin = Origin
    QueueSize = 3
INVARIANTS
    ContactsPlaced
CHECK_DEADLOCK FALSE

SPECIFICATION TouchFairSpec
CONSTANTS
    NumSlots = 2
    Contacts = {c1, c2}
    NoContact = NoContact
    Positions = {Origin, p}
    Origin = Origin
    QueueSize = 3
INVARIANTS
    SlotsAgree
    NothingMissed
PROPERTIES
    SlotsImplementContract
    WritesOwnSlot
    ContactsStayPlaced
    NoStuckContact
\* A session that was closed stays closed.
CHECK_DEADLOCK FALSE

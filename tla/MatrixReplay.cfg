SPECIFICATION GatewaySpec
CONSTANTS
    ask = ask
    stop = stop
    askAgain = askAgain
    stopAll = stopAll
    snoop = snoop
    look = look
    spy = spy
    help = help
    noise = noise
    echo = echo
    account1 = account1
    room1 = room1
    room2 = room2
    Messages = {ask, stop, askAgain, stopAll, snoop, look, spy, help, noise, echo}
    Rooms = {room1, room2}
    Accounts = {account1}
    RoomOf <- MCRoomOf
    RoleOf <- MCRoleOf
    CommandOf <- MCCommandOf
    Nobody = Nobody
    MaxPosts = 3
    MaxMishaps = 2
INVARIANTS
    ReplayIsSafe
CHECK_DEADLOCK FALSE

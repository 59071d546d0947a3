\* One lost request is enough, so one client and two streams are.
CONSTANTS
    Streams = {sys_status, attitude}
    SysStatus = sys_status
    RebootAp = reboot_ap
    PreArm = pre_arm
    Stale = 0
    QueueSize = 1
    Clients = {ground1}
    NoClient = NoClient
SPECIFICATION Spec
PROPERTY AllStreamsRestored

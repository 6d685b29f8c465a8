\* IPv6 addresses of four groups instead of eight. The URL is built once:
\* CHECK_DEADLOCK FALSE.
CONSTANTS
    Groups = 4
    Users <- MCUsers
    Hosts <- MCHosts
    Tails <- MCTails
SPECIFICATION Spec
CHECK_DEADLOCK FALSE
INVARIANTS
    HostCanonical
    PortUnambiguous

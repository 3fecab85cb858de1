------------------------------- MODULE MCLive -------------------------------
EXTENDS LiveTelemetry, Frames, Bitwise

CONSTANTS owner, installer

\* One vehicle with a device.
FleetOwners == <<1>>
FleetDevices == <<1>>
DeviceOwners == <<1>>

\* The owner of the vehicle and an installer.
Roles == [c \in Client |-> IF c = owner THEN "owner" ELSE "installation"]
Uids == [c \in Client |-> IF c = owner THEN 1 ELSE 3]

\* A phone that names a vehicle the fleet does not have and its owner, a box
\* that names its device.
Bodies == {[vehicle |-> 2, device |-> 0, plate |-> 0, owner |-> 1, type |-> "location"],
           [vehicle |-> 0, device |-> 1, plate |-> 0, owner |-> 0, type |-> "device_state"]}

\* The owner looks at the vehicle the fleet does not have.
Subscriptions == [c \in Client |-> IF c = owner THEN {2} ELSE {}]

BitXor(a, b) == a ^^ b

\* Frames of lengths at which the header changes, alone and before another one,
\* masked and (the short ones) not, whole and cut short by a byte or two.
Key == <<7, 0, 129, 255>>
Lengths == {0, 1, 125, 126, 127, 65535, 65536}
Counting(n) == [i \in 1 .. n |-> (i + n) % 256]

ASSUME FramesAreRead ==
    \A n \in Lengths : \A key \in IF n < 128 THEN {Key, <<>>} ELSE {<<>>} :
        LET f == Frame(8, key, Counting(n))
            read == [opcode |-> 8, payload |-> Counting(n), size |-> Len(f)]
        IN  /\ ReadWSFrame(f) = read
            /\ ReadWSFrame(f \o WriteWSFrame(<<129>>)) = read
            /\ \A k \in {1, 2} : ReadWSFrame(SubSeq(f, 1, Len(f) - k)) = Failed

ASSUME LongFramesAreRefused ==
    \A n \in {MaxRead + 1, 2147483647} :
        /\ Uint64(Uint64Bytes(n), 1) = n
        /\ ReadWSFrame(<<129, 127>> \o Uint64Bytes(n)) = Failed
=============================================================================

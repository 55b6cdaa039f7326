------------------------------ MODULE MCLines ------------------------------
(* An instance of the byte lines for TLC: the serial ingress, the sender at  *)
(* the other end of such a line, and the TCP ingress.  The three are separate *)
(* programs or tasks and share no state here: one run explores one of them,   *)
(* chosen by "part", while the others stay in their initial states.           *)
(* Serial: two ports, frames of three bytes; ahead of the first, noise that   *)
(* claims to be a longer frame and noise that is a demo stream header; a body *)
(* that looks like such a header too; a frame without samples.                *)
EXTENDS SerialIngress, SerialSender, TcpIngress

CONSTANTS p1, p2, a, b

Byte(f, i, c) == [frame |-> f, place |-> i, claim |-> c]
FrameBytes(f, c) == <<Byte(f, 1, 3), Byte(f, 2, c), Byte(f, 3, 0)>>

MCScript == <<Byte(0, 1, 4), Byte(0, 2, 3)>> \o FrameBytes(1, 3) \o FrameBytes(2, 0)
                \o FrameBytes(3, 0) \o FrameBytes(4, 0)
MCPortOrder == <<p1, p2>>

VARIABLE part
linesVars == <<serialVars, senderVars, registryVars, part>>

LinesInit ==
    /\ part \in {"serial", "sender", "tcp"}
    /\ SerialInit /\ SenderInit /\ RegistryInit
    /\ part # "serial" => mode = "legacy" /\ ~auto /\ plug = p1
    /\ part # "sender" => collector.serial_mode = "legacy"

LinesNext ==
    \/ part = "serial" /\ SerialNext /\ UNCHANGED <<senderVars, registryVars, part>>
    \/ part = "sender" /\ SenderNext /\ UNCHANGED <<serialVars, registryVars, part>>
    \/ part = "tcp" /\ RegistryNext /\ UNCHANGED <<serialVars, senderVars, part>>

LinesSpec == LinesInit /\ [][LinesNext]_linesVars
=============================================================================

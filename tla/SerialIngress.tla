---------------------------- MODULE SerialIngress ----------------------------
(***************************************************************************)
(* The serial ingress (ingress/serial.rs): run_auto_serial_ingress scans   *)
(* the ports, probes each for a valid frame and runs                       *)
(* run_connected_serial_ingress on the first that has one, with the open   *)
(* port and the bytes read so far; when the port ends it scans again.      *)
(* run_serial_ingress does the last part on a fixed port, once; a fixed    *)
(* port in legacy mode is read by a DeviceSession (collector_service.rs),  *)
(* whose select! may drop a read that is under way.                        *)
(*                                                                         *)
(* One device sends its script of bytes, on the port it is plugged into;   *)
(* it may be pulled out, and plugged into another port.  The values of the *)
(* samples, their times and status texts are left out.                     *)
(***************************************************************************)
EXTENDS FrameCodecs, SerialTransport, SequencesExt

CONSTANTS
    PortOrder,      \* available_serial_port_names: the ports as they are probed
    Script,         \* the bytes of the device
    Useful,         \* the frames that carry samples of the selected mode
    Raised,         \* the demo frames whose alarm bit is set
    MaxPulls        \* bound: how often the device is pulled out

ASSUME ScriptAssumption ==
    /\ PortOrder \in Seq(Ports) /\ Script \in Seq([frame : Nat, place : Nat, claim : Nat])
    /\ Useful \subseteq Nat /\ Raised \subseteq Nat /\ MaxPulls \in Nat

VARIABLES
    mode, auto,     \* SerialIngressMode, and whether the port is detected
    pc,             \* where the task is
    left,           \* the ports of this scan that are not probed yet
    buf,            \* the bytes read and not decoded
    trial,          \* the copy of buf the probe decodes
    published,      \* the frames published since the port was opened
    first,          \* ghost: the first byte sent after the port was opened
    demoAlarm,      \* demo_alarm_state: "none" before the first packet
    alarms,         \* the demo alarms active on the bus, by port
    plug,           \* where the device is plugged in
    dead,           \* the device was pulled out of the port that is open
    sent, pulls     \* bytes the device sent; how often it was pulled out

taskVars   == <<mode, auto, pc, left, buf, trial, published, first, demoAlarm, alarms>>
deviceVars == <<plug, dead, sent, pulls>>
serialVars == <<taskVars, transportVars, deviceVars>>

SerialInit ==
    /\ TransportInit
    /\ mode \in {"legacy", "demo", "sent"} /\ auto \in BOOLEAN
    /\ pc = "scan" /\ left = <<>>
    /\ buf = <<>> /\ trial = <<>> /\ published = <<>> /\ first = 1
    /\ demoAlarm = "none" /\ alarms = {}
    /\ plug \in Ports /\ dead = FALSE /\ sent = 0 /\ pulls = 0

Bytes(positions) == [i \in DOMAIN positions |-> Script[positions[i]]]

\* What the decoder leaves of the buffer is its tail.
Kept(positions, rest) == SubSeq(positions, Len(positions) - Len(rest) + 1, Len(positions))

UsefulFrame(f) == mode = "demo" \/ f \in Useful

-----------------------------------------------------------------------------
(* Finding the port.                                                       *)

\* The list of the ports is read, after the pause of a scan that found none.
Scan ==
    /\ pc = "scan"
    /\ left' = IF auto THEN PortOrder ELSE <<PortOrder[1]>>
    /\ pc' = "open"
    /\ UNCHANGED <<mode, auto, buf, trial, published, first, demoAlarm, alarms, transportVars, deviceVars>>

NextPort == Head(left)

\* probe_serial_port, run_serial_ingress: the port opens, whatever is behind it.
Open ==
    /\ pc = "open" /\ left # <<>>
    /\ OpenPort(NextPort)
    /\ left' = Tail(left)
    /\ first' = sent + 1
    /\ buf' = <<>> /\ published' = <<>> /\ demoAlarm' = "none"
    /\ pc' = IF auto THEN "probe" ELSE "run"
    /\ dead' = FALSE
    /\ UNCHANGED <<mode, auto, trial, alarms, plug, sent, pulls>>

\* Another program holds the port, or it is gone: the next one; a fixed port
\* is given up.
OpenFails ==
    /\ pc = "open" /\ left # <<>>
    /\ left' = Tail(left)
    /\ pc' = IF auto THEN "open" ELSE "ended"
    /\ UNCHANGED <<mode, auto, buf, trial, published, first, demoAlarm, alarms, transportVars, deviceVars>>

NoneFound ==
    /\ pc = "open" /\ left = <<>>
    /\ pc' = "scan"
    /\ UNCHANGED <<mode, auto, left, buf, trial, published, first, demoAlarm, alarms, transportVars, deviceVars>>

Reads == pc \in {"probe", "run"}

BeginRead ==
    /\ Reads
    /\ StartRead
    /\ UNCHANGED <<taskVars, deviceVars>>

\* The read brought bytes (or none: it timed out, and is repeated).
EndRead ==
    /\ Reads /\ reader = "done"
    /\ TakeResult
    /\ buf' = buf \o result
    /\ trial' = IF pc = "probe" THEN buf \o result ELSE trial
    /\ pc' = IF result = <<>> THEN pc ELSE IF pc = "probe" THEN "try" ELSE "decode"
    /\ UNCHANGED <<mode, auto, left, published, first, demoAlarm, alarms, deviceVars>>

\* The read failed: a probe is over, and so is a run.
EndFailed ==
    /\ Reads /\ reader = "failed"
    /\ TakeResult
    /\ pc' = IF pc = "probe" THEN "reject" ELSE "close"
    /\ UNCHANGED <<mode, auto, left, buf, trial, published, first, demoAlarm, alarms, deviceVars>>

\* The probe time is over: the read under way is dropped.
ProbeTimeout ==
    /\ pc = "probe"
    /\ CancelRead
    /\ pc' = "reject"
    /\ UNCHANGED <<mode, auto, left, buf, trial, published, first, demoAlarm, alarms, deviceVars>>

\* contains_valid_frame decodes a copy: a frame that is of use selects the
\* port, and the ingress gets every byte read, that frame included; without
\* one the probe goes on with what the decoder left.
TryFrame ==
    /\ pc = "try"
    /\ LET d    == TryDecode(mode, Bytes(trial))
           rest == Kept(trial, d.rest)
       IN  IF ~Decodes(mode, Bytes(trial))
           THEN /\ buf' = rest /\ trial' = <<>> /\ pc' = "probe"
           ELSE IF UsefulFrame(d.frame)
           THEN /\ trial' = <<>> /\ pc' = "decode" /\ UNCHANGED buf
           ELSE /\ trial' = rest /\ UNCHANGED <<buf, pc>>
    /\ UNCHANGED <<mode, auto, left, published, first, demoAlarm, alarms, transportVars, deviceVars>>

\* The port is closed and the next one probed.
Reject ==
    /\ pc = "reject"
    /\ ClosePort
    /\ pc' = "open"
    /\ UNCHANGED <<mode, auto, left, buf, trial, published, first, demoAlarm, alarms, deviceVars>>

-----------------------------------------------------------------------------
(* Running on it.                                                          *)

\* Mutant: the alarm bit counts as clear before the first packet.
DemoAlarmStarts(bit) == demoAlarm # bit /\ <<demoAlarm, bit>> # <<"none", "clear">>

\* demo_alarm_state: an edge of the alarm bit, or the first packet of this run.
DemoAlarmChanges(bit) == demoAlarm # bit

\* What is published of a frame: its samples, if it carries any.  A stream
\* packet made of other bytes carries some, and any alarm bit.
WithSamples(f) == IF f \in Useful \cup {NoFrame} THEN Append(published, f) ELSE published
Bits(f) == IF f = NoFrame THEN {"set", "clear"} ELSE IF f \in Raised THEN {"set"} ELSE {"clear"}

\* One frame of the buffer is published, or nothing is left to decode.
DecodeFrame ==
    /\ pc = "decode"
    /\ LET d == TryDecode(mode, Bytes(buf))
       IN  /\ buf' = Kept(buf, d.rest)
           /\ IF ~Decodes(mode, Bytes(buf))
              THEN pc' = "run" /\ UNCHANGED <<published, demoAlarm, alarms>>
              ELSE /\ published' = WithSamples(d.frame)
                   /\ \E bit \in Bits(d.frame) :
                         IF /\ mode = "demo" /\ d.frame \in Useful \cup {NoFrame}
                            /\ DemoAlarmChanges(bit)
                         THEN /\ demoAlarm' = bit
                              /\ alarms' = IF bit = "set" THEN alarms \cup {port}
                                                          ELSE alarms \ {port}
                         ELSE UNCHANGED <<demoAlarm, alarms>>
                   /\ UNCHANGED pc
    /\ UNCHANGED <<mode, auto, left, trial, first, transportVars, deviceVars>>

\* Another branch of the session's select! is taken: the future that reads is
\* dropped; the next turn of the loop reads again.
SelectCancels ==
    /\ pc = "run" /\ mode = "legacy" /\ ~auto
    /\ CancelRead
    /\ UNCHANGED <<taskVars, deviceVars>>

\* The port ended: an auto-detected one is looked for again, a fixed one is not.
End ==
    /\ pc = "close"
    /\ ClosePort
    /\ pc' = IF auto THEN "scan" ELSE "ended"
    /\ UNCHANGED <<mode, auto, left, buf, trial, published, first, demoAlarm, alarms, deviceVars>>

-----------------------------------------------------------------------------
(* The thread of the read, and the device.                                 *)

Thread ==
    /\ ReadBytes \/ ReadTimesOut \/ ReadFails(dead)
    /\ UNCHANGED <<taskVars, deviceVars>>

\* The open port reaches the device.
Connected == plug = port /\ ~dead

\* The device sends its next byte; nobody keeps it while the port is closed.
Send ==
    /\ plug # NoPort /\ sent < Len(Script)
    /\ sent' = sent + 1
    /\ wire' = IF Connected THEN Append(wire, sent + 1) ELSE wire
    /\ UNCHANGED <<taskVars, port, reader, awaited, result, plug, dead, pulls>>

Pull ==
    /\ plug # NoPort /\ pulls < MaxPulls
    /\ plug' = NoPort /\ pulls' = pulls + 1
    /\ dead' = (dead \/ plug = port)
    /\ UNCHANGED <<taskVars, transportVars, sent>>

PlugIn ==
    /\ plug = NoPort
    /\ plug' \in Ports
    /\ first' = IF plug' = port /\ ~dead THEN sent + 1 ELSE first
    /\ UNCHANGED <<mode, auto, pc, left, buf, trial, published, demoAlarm, alarms, transportVars, dead, sent, pulls>>

Task ==
    \/ Scan \/ Open \/ NoneFound \/ BeginRead \/ EndRead \/ EndFailed
    \/ TryFrame \/ Reject \/ DecodeFrame \/ End

SerialNext ==
    Task \/ OpenFails \/ ProbeTimeout \/ SelectCancels \/ Thread \/ Send \/ Pull \/ PlugIn

SerialSpec == SerialInit /\ [][SerialNext]_serialVars

-----------------------------------------------------------------------------

Positions == 1 .. Len(Script)

(* Types; and no read outlives its port: the thread of a port that was     *)
(* closed cannot bring its bytes to the next one.                          *)
SerialTypeOK ==
    /\ mode \in {"legacy", "demo", "sent"} /\ auto \in BOOLEAN
    /\ pc \in {"scan", "open", "probe", "try", "reject", "decode", "run", "close", "ended"}
    /\ port \in Ports \cup {NoPort} /\ plug \in Ports \cup {NoPort} /\ dead \in BOOLEAN
    /\ reader \in {"none", "blocked", "done", "failed"} /\ awaited \in BOOLEAN
    /\ \A s \in {wire, result, buf, trial} : s \in Seq(Positions)
    /\ (reader # "none" \/ awaited) => port # NoPort
    /\ published \in Seq(Nat) /\ left \in Seq(Ports)
    /\ demoAlarm \in {"none", "clear", "set"} /\ alarms \subseteq Ports /\ sent \in 0 .. Len(Script) /\ pulls \in 0 .. MaxPulls

\* The bytes that were read from the port or wait there, in their order.
Ahead == buf \o result \o wire

\* The frames all of whose bytes were sent to the port after it was opened
\* and are behind the decoder.
Behind == IF Ahead = <<>> THEN sent ELSE Ahead[1] - 1
Passed == {f \in Useful \ {NoFrame} :
              \A n \in Positions : Script[n].frame = f => n \in first .. Behind}

\* A demo stream header where no frame begins.
FalseHeaders == {n \in first .. Behind :
    /\ mode = "demo" /\ Script[n].claim = FrameLen
    /\ Script[n].frame = NoFrame \/ Script[n].place # 1}

\* The frames that may be lost to such a header: they begin in the packet it
\* pretends, and the header is noise, or part of a frame that is lost itself
\* or that had begun when the port was opened.
Swallowed ==
    LET places(f) == {n \in Positions : Script[n].frame = f /\ Script[n].place = 1}
        lost[f \in {Script[n].frame : n \in Positions}] ==
            \/ f = NoFrame
            \/ \E n \in places(f) :
                  \/ n < first
                  \/ \E h \in FalseHeaders : h < n /\ n < h + FrameLen /\ lost[Script[h].frame]
    IN  {f \in Useful \ {NoFrame} : lost[f]}

(* Every frame that reached the port whole is published exactly once and   *)
(* in order, however the bytes are cut into reads, whatever noise precedes *)
(* it and whoever read its first bytes: the probe keeps the first frame    *)
(* and the half frame behind it.  The exception is a demo stream header    *)
(* where none was sent: it is believed, makes one packet of other bytes,   *)
(* and costs the frame that begins in those bytes at most.                 *)
EveryFrameOnce ==
    /\ SerialTypeOK
    /\ pc \in {"run", "decode"} =>
          LET junk == {i \in DOMAIN published : published[i] = NoFrame}
          IN  /\ \A i, j \in DOMAIN published \ junk : i < j => published[i] < published[j]
              /\ Connected =>
                    /\ Passed \ Swallowed \subseteq ToSet(published)
                    /\ ToSet(published) \ {NoFrame} \subseteq Passed
                    /\ Cardinality(junk) <= Cardinality(FalseHeaders)

(* After the first demo packet of a run the alarm on the bus is the bit of *)
(* the last packet, even if an earlier run of the port left it active.     *)
DemoAlarmTrue ==
    /\ mode # "demo" => alarms = {}
    /\ mode = "demo" /\ pc \in {"run", "decode"} /\ published # <<>> =>
          /\ port \in alarms <=> demoAlarm = "set"
          /\ Last(published) # NoFrame => (demoAlarm = "set" <=> Last(published) \in Raised)
=============================================================================

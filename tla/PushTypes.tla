------------------------------ MODULE PushTypes ------------------------------
(***************************************************************************)
(* What the sensor side and the console side of the push pipeline have in  *)
(* common: the enrolled identities, the push envelopes and the wall clock. *)
(*                                                                         *)
(* An envelope (sensor_cmd._build_envelope) is abstracted to its           *)
(* payload_id, a fresh uuid4.  What the console tells apart in its body is *)
(* given by two functions of the payload_id: the envelope's sensor_id and  *)
(* the shape of its hardware_devices field.                                *)
(***************************************************************************)
EXTENDS Integers, FiniteSets

CONSTANTS
    Sensors,    \* sensor_ids an operator may enroll
    Payloads,   \* payload_ids that may be generated
    Owner,      \* [Payloads -> Sensors]: envelope["sensor_id"]
    Hardware,   \* [Payloads -> HardwareField]: envelope["hardware_devices"]
    Window,     \* _REPLAY_WINDOW, in clock units
    MaxTime     \* bound on the clock

VARIABLE clock  \* UTC time, shared by sensor hosts and console

(* hardware_devices: the key is missing (an old sensor), an empty list (a
   confirmed zero) or a list with devices in it. *)
HardwareField == {"absent", "empty", "devices"}

ASSUME PushAssumption ==
    /\ Owner \in [Payloads -> Sensors]
    /\ Hardware \in [Payloads -> HardwareField]
    /\ Window \in Nat
    /\ MaxTime \in Nat \ {0}

Time == 1..MaxTime
Never == 0              \* a DATETIME column that is NULL
Stamp == 0..MaxTime

Tick == clock < MaxTime /\ clock' = clock + 1
=============================================================================

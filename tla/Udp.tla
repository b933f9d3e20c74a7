--------------------------------- MODULE Udp ---------------------------------
(***************************************************************************)
(* The datagrams in flight between the roboRIO and the vision coprocessor. *)
(* Both programs send each message once, wait for no answer and keep no    *)
(* sequence numbers: a datagram may be lost, overtaken by a later one, or  *)
(* delivered more than once.  A set per direction holds every one of these *)
(* cases; two datagrams with the same content are the same element.        *)
(***************************************************************************)
VARIABLES
  toRobot,    \* reports of the coprocessor, port 5800
  toDeadeye   \* camera commands of the robot, port 5801

UdpInit == toRobot = {} /\ toDeadeye = {}

SendToRobot(m) == toRobot' = toRobot \cup {m}
SendToDeadeye(m) == toDeadeye' = toDeadeye \cup {m}

\* recvfrom: the datagram is gone, or a duplicate of it is still on its way.
TakeAtRobot(m) ==
  /\ m \in toRobot
  /\ toRobot' \in {toRobot, toRobot \ {m}}

TakeAtDeadeye(m) ==
  /\ m \in toDeadeye
  /\ toDeadeye' \in {toDeadeye, toDeadeye \ {m}}

LoseReport(m) == toRobot' = toRobot \ {m} /\ UNCHANGED toDeadeye
LoseCommand(m) == toDeadeye' = toDeadeye \ {m} /\ UNCHANGED toRobot
=============================================================================

---------------------------- MODULE Node_proofs ----------------------------
(***************************************************************************)
(* Proofs about Node, for every period, tick width, set of modes and bound. *)
(***************************************************************************)
EXTENDS Node, TLAPS

\* Every status the driver returns for a mode is one the switch knows.
LEMMA ModeStatusRange ==
  ASSUME NEW m \in AllModes
  PROVE  ModeStatus(m) \in 2 .. 5
BY SMT DEF ModeStatus, AllModes

LEMMA StatusModeRange ==
  ASSUME NEW s \in 2 .. 5
  PROVE  StatusMode[s] \in AllModes
BY SMT DEF StatusMode, AllModes

LEMMA DefaultInModes == DefaultMode \in AllModes
BY SMT DEF DefaultMode, AllModes

LEMMA TypeInit == Init => TypeOK
<1> SUFFICES ASSUME Init PROVE TypeOK
  OBVIOUS
<1>1. TypeBool
  BY Zenon DEF Init, TypeBool
<1>2. TypeTime
  BY TickAssumption, SMT DEF Init, TypeTime
<1>3. mode \in AllModes /\ mac \in AllModes
  BY ModesAssumption, DefaultInModes DEF Init
<1>4. TypeRest
  BY <1>3, SMT DEF Init, TypeRest, LINK_DOWN, READ_ERROR, AUTONEGO_NOTDONE, Flags,
    PC, InCheck
<1> QED
  BY <1>1, <1>2, <1>4 DEF TypeOK

\* A reset leaves a state of the right types.
LEMMA TypeReset ==
  ASSUME TypeOK, SystemReset, flag' \in Flags, asked' \in Flags, overtaken' \in BOOLEAN
  PROVE  TypeOK'
<1>1. TypeBool'
  BY Zenon DEF SystemReset, TypeOK, TypeBool, phy
<1>2. TypeTime'
  BY TickAssumption, SMT DEF SystemReset, TypeTime
<1>3. TypeRest'
  BY DefaultInModes, SMT DEF SystemReset, TypeOK, TypeRest, LINK_DOWN, READ_ERROR,
    AUTONEGO_NOTDONE, Flags, PC, phy
<1> QED
  BY <1>1, <1>2, <1>3 DEF TypeOK

\* A step of the surroundings keeps the types.
LEMMA TypeAround ==
  ASSUME TypeOK,
         \/ Tick \/ LinkLost \/ (\E m \in Modes : LinkRises(m)) \/ Negotiated
         \/ (\E d \in {"discover", "reboot"} : Datagram(d))
         \/ BusError \/ Touch \/ TouchIgnored \/ Start
  PROVE  TypeOK'
<1> USE TickAssumption, ModesAssumption DEF time, phy, poll, eth, udp, boot, vars,
    TypeBool, TypeTime, TypeRest
<1>1. CASE Tick
  <2>1. tick' \in 0 .. TickMod - 1
    BY <1>1, SMT DEF Tick, TypeOK, TypeTime
  <2> QED
    BY <1>1, <2>1, SMT DEF Tick, TypeOK, TypeBool, TypeTime, TypeRest
<1>2. CASE LinkLost
  <2>1. TypeBool'
    BY <1>2, Zenon DEF LinkLost, TypeOK
  <2>2. TypeTime' /\ TypeRest'
    BY <1>2, SMT DEF LinkLost, TypeOK
  <2> QED
    BY <2>1, <2>2 DEF TypeOK
<1>3. CASE \E m \in Modes : LinkRises(m)
  BY <1>3, SMT DEF LinkRises, TypeOK
<1>4. CASE Negotiated
  BY <1>4, SMT DEF Negotiated, TypeOK
<1>5. CASE \E d \in {"discover", "reboot"} : Datagram(d)
  BY <1>5, SMT DEF Datagram, TypeOK
<1>6. CASE BusError
  BY <1>6, SMT DEF BusError, TypeOK
<1>7. CASE Touch
  BY <1>7, TypeReset DEF Touch, Flags
<1>8. CASE TouchIgnored
  <2>1. TypeBool'
    <3>1. overtaken' \in BOOLEAN
      BY <1>8 DEF TouchIgnored
    <3> QED
      BY <1>8, <3>1, Zenon DEF TouchIgnored, TypeOK
  <2>2. TypeTime' /\ TypeRest'
    BY <1>8, SMT DEF TouchIgnored, TypeOK, Flags
  <2> QED
    BY <2>1, <2>2 DEF TypeOK
<1>9. CASE Start
  <2>1. TypeBool'
    BY <1>9, Zenon DEF Start, TypeOK
  <2>2. TypeTime' /\ TypeRest'
    BY <1>9, SMT DEF Start, TypeOK, Flags, PC, InCheck
  <2> QED
    BY <2>1, <2>2 DEF TypeOK
<1> QED
  BY <1>1, <1>2, <1>3, <1>4, <1>5, <1>6, <1>7, <1>8, <1>9

\* A step of the link monitor keeps the types.
LEMMA TypeCheck == TypeOK /\ Check => TypeOK'
<1> SUFFICES ASSUME TypeOK, Check PROVE TypeOK'
  OBVIOUS
<1> USE DEF time, phy, poll, eth, udp, boot, vars,
    TypeBool, TypeTime, TypeRest
<1>1. CASE ReadFails
  BY <1>1, SMT DEF ReadFails, TypeOK, PC, InCheck, READ_ERROR
<1>2. CASE ReadBsr
  BY <1>2, SMT DEF ReadBsr, TypeOK, PC, InCheck
<1>3. CASE ReadBsrAgain
  BY <1>3, SMT DEF ReadBsrAgain, TypeOK, PC, InCheck, LINK_DOWN, AUTONEGO_NOTDONE
<1>4. CASE ReadBcr
  <2>1. ModeStatus(mode) \in 2 .. 5
    BY ModeStatusRange DEF TypeOK
  <2> QED
    BY <1>4, <2>1, SMT DEF ReadBcr, TypeOK, PC, InCheck, LINK_DOWN, AUTONEGO_NOTDONE
<1>5. CASE ReadPhyscsr
  <2>1. ModeStatus(mode) \in 2 .. 5
    BY ModeStatusRange DEF TypeOK
  <2> QED
    BY <1>5, <2>1, SMT
      DEF ReadPhyscsr, TypeOK, PC, InCheck, LINK_DOWN, AUTONEGO_NOTDONE
<1>6. CASE LinkDown
  <2>1. TypeBool'
    BY <1>6, Zenon DEF LinkDown, TypeOK
  <2>2. TypeTime' /\ TypeRest'
    BY <1>6, SMT DEF LinkDown, Stop, Return, TypeOK, PC, LINK_DOWN, AUTONEGO_NOTDONE
  <2> QED
    BY <2>1, <2>2 DEF TypeOK
<1>7. CASE LinkUp
  <2>1. status \in 2 .. 5
    BY <1>7, SMT DEF LinkUp, GoUp, StatusMode
  <2>2. StatusMode[status] \in AllModes
    BY <2>1, StatusModeRange
  <2>3. TypeBool'
    BY <1>7, Zenon DEF LinkUp, TypeOK, Return
  <2>4. TypeTime' /\ TypeRest'
    BY <1>7, <2>2, SMT DEF LinkUp, TypeOK, Return, PC, LINK_DOWN,
      AUTONEGO_NOTDONE
  <2> QED
    BY <2>3, <2>4 DEF TypeOK
<1>8. CASE NoChange
  BY <1>8, SMT DEF NoChange, Return, TypeOK, PC, LINK_DOWN, AUTONEGO_NOTDONE
<1> QED
  BY <1>1, <1>2, <1>3, <1>4, <1>5, <1>6, <1>7, <1>8 DEF Check

\* A step of the main loop, or of the sketch, keeps the types.
LEMMA TypeLoop ==
  ASSUME TypeOK, Loop \/ (\E cb \in BOOLEAN : ServerStart(cb)) \/ ServerStop
  PROVE  TypeOK'
<1> USE DEF time, phy, poll, eth, udp, boot, vars,
    TypeBool, TypeTime, TypeRest
<1>1. CASE \E cb \in BOOLEAN : ServerStart(cb)
  <2>1. TypeBool'
    BY <1>1, Zenon DEF ServerStart, TypeOK
  <2>2. TypeTime' /\ TypeRest'
    BY <1>1, SMT DEF ServerStart, TypeOK
  <2> QED
    BY <2>1, <2>2 DEF TypeOK
<1>2. CASE ServerStop
  <2>1. TypeBool'
    BY <1>2, Zenon DEF ServerStop, TypeOK
  <2>2. TypeTime' /\ TypeRest'
    BY <1>2, SMT DEF ServerStop, TypeOK
  <2> QED
    BY <2>1, <2>2 DEF TypeOK
<1>3. CASE Process
  BY <1>3, SMT DEF Process, TypeOK, PC
<1>4. CASE Input
  BY <1>4, SMT DEF Input, TypeOK, PC
<1>5. CASE InputReboot
  <2>1. TypeBool'
    BY <1>5, Zenon DEF InputReboot, TypeOK
  <2>2. TypeTime' /\ TypeRest'
    BY <1>5, SMT DEF InputReboot, TypeOK, PC, Flags
  <2> QED
    BY <2>1, <2>2 DEF TypeOK
<1>6. CASE BkupRead
  BY <1>6, SMT DEF BkupRead, TypeOK, PC, Flags
<1>7. CASE BkupWrite
  BY <1>7, SMT DEF BkupWrite, EthFlag, TypeOK, PC, Flags
<1>8. CASE Reset
  BY <1>8, TypeReset DEF Reset, TypeOK, TypeBool, TypeRest
<1>9. CASE Poll
  BY <1>9, SMT DEF Poll, TypeOK, PC, InCheck
<1>10. CASE NoPoll
  BY <1>10, SMT DEF NoPoll, TypeOK, PC
<1>11. CASE NetInit
  BY <1>11, SMT DEF NetInit, TypeOK, PC
<1> QED
  BY <1>1, <1>2, <1>3, <1>4, <1>5, <1>6, <1>7, <1>8, <1>9, <1>10, <1>11 DEF Loop

\* Types are kept for ever.
THEOREM TypeCorrect == Spec => []TypeOK
<1>1. TypeOK /\ [Next]_vars => TypeOK'
  <2> SUFFICES ASSUME TypeOK, [Next]_vars PROVE TypeOK'
    OBVIOUS
  <2>1. CASE UNCHANGED vars
    BY <2>1, SMT DEF vars, time, phy, poll, eth, udp, boot, TypeOK, TypeBool,
      TypeTime, TypeRest
  <2>2. CASE Next
    BY <2>2, TypeAround, TypeCheck, TypeLoop DEF Next, Main
  <2> QED
    BY <2>1, <2>2
<1> QED
  BY <1>1, TypeInit, PTL DEF Spec

-----------------------------------------------------------------------------

\* The interface's link flag is set exactly while the MAC is started, and the
\* interface is up then, unless a fatal bus error has put the handle in the state no
\* call leaves. The property is inductive as it stands.
THEOREM UpMeansStarted == Spec => []StartedIffUp
<1>1. Init => StartedIffUp
  BY Zenon DEF Init, StartedIffUp
<1>2. TypeOK /\ StartedIffUp /\ [Next]_vars => StartedIffUp'
  <2> SUFFICES ASSUME TypeOK, StartedIffUp, [Next]_vars PROVE StartedIffUp'
    OBVIOUS
  <2> USE DEF StartedIffUp, eth
  <2>1. CASE Touch \/ Reset
    BY <2>1, SMT DEF Touch, Reset, SystemReset
  <2>2. CASE BusError
    BY <2>2, SMT DEF BusError
  <2>3. CASE LinkDown
    BY <2>3, SMT DEF LinkDown, Stop, TypeOK, TypeRest
  <2>4. CASE LinkUp
    BY <2>4, SMT DEF LinkUp, GoUp, TypeOK, TypeRest
  <2>5. ASSUME UNCHANGED eth PROVE StartedIffUp'
    BY <2>5
  <2>6. CASE UNCHANGED vars
    BY <2>5, <2>6 DEF vars
  <2>7. CASE Check /\ ~LinkDown /\ ~LinkUp
    BY <2>5, <2>7 DEF Check, ReadFails, ReadBsr, ReadBsrAgain, ReadBcr, ReadPhyscsr,
      NoChange
  <2>8. CASE NetInit
    BY <2>8, SMT DEF NetInit
  <2>9. CASE Loop /\ ~Reset /\ ~NetInit
    BY <2>5, <2>9 DEF Loop, Process, Input, InputReboot, BkupRead, BkupWrite, Poll,
      NoPoll
  <2>10. CASE \/ Tick \/ LinkLost \/ (\E m \in Modes : LinkRises(m)) \/ Negotiated
             \/ (\E d \in {"discover", "reboot"} : Datagram(d)) \/ TouchIgnored
             \/ Start \/ (\E cb \in BOOLEAN : ServerStart(cb)) \/ ServerStop
    BY <2>5, <2>10 DEF Tick, LinkLost, LinkRises, Negotiated, Datagram, TouchIgnored,
      Start, ServerStart, ServerStop, vars
  <2> QED
    BY <2>1, <2>2, <2>3, <2>4, <2>6, <2>7, <2>8, <2>9, <2>10 DEF Next, Main
<1> QED
  BY <1>1, <1>2, TypeCorrect, PTL DEF Spec

-----------------------------------------------------------------------------

\* The last request was a touch that came too late for the register and too early
\* for the reset.
Overtaken == overtaken /\ asked = "CDC"

\* While the main thread is on its way from the datagram to the write, the last
\* request is the datagram's, or a dropped touch came after it; at any other time
\* the flag is that of the last request, or the datagram's write has gone over such
\* a touch. (Without the first part nothing is known of the flag when the delay
\* ends.)
FlagInv ==
  /\ pc \in {"bkup", "flag"} => asked = "ETH" \/ Overtaken
  /\ pc = "flag" => regV = flag
  /\ pc \notin {"bkup", "flag"} => flag = asked \/ (Overtaken /\ flag = "ETH")

\* The boot loader finds the flag of the request that came last, unless that was a
\* touch dropped while a datagram's request was on its way to the register.
THEOREM LastRequestWins == Spec => []BootsAsAsked
<1>1. Init => FlagInv
  BY Zenon DEF Init, FlagInv
<1>2. FlagInv /\ [Next]_vars => FlagInv'
  <2> SUFFICES ASSUME FlagInv, [Next]_vars PROVE FlagInv'
    OBVIOUS
  <2> USE DEF FlagInv, Overtaken, boot
  <2>1. CASE Touch \/ Start \/ Reset
    BY <2>1, SMT DEF Touch, Start, Reset, SystemReset
  <2>2. CASE TouchIgnored
    <3>1. overtaken' <=> pc \in {"bkup", "flag"}
      BY <2>2, Zenon DEF TouchIgnored
    <3>2. asked' = "CDC" /\ flag = "CDC"
      BY <2>2, Zenon DEF TouchIgnored
    <3>3. UNCHANGED <<pc, regV, flag>>
      BY <2>2, Zenon DEF TouchIgnored
    <3> QED
      BY <3>1, <3>2, <3>3, Zenon
  <2>3. CASE InputReboot
    BY <2>3, SMT DEF InputReboot
  <2>4. CASE BkupRead
    BY <2>4, SMT DEF BkupRead
  <2>5. CASE BkupWrite
    BY <2>5, SMT DEF BkupWrite, EthFlag
  <2>6. ASSUME UNCHANGED <<boot, pc>> PROVE FlagInv'
    BY <2>6, SMT
  <2>7. ASSUME UNCHANGED boot, pc \notin {"bkup", "flag"}, pc' \notin {"bkup", "flag"}
        PROVE  FlagInv'
    BY <2>7, SMT
  <2>8. CASE UNCHANGED vars
    BY <2>6, <2>8 DEF vars
  <2>9. CASE Check
    BY <2>7, <2>9, SMT DEF Check, ReadFails, ReadBsr, ReadBsrAgain, ReadBcr,
      ReadPhyscsr, LinkDown, LinkUp, NoChange, Return, InCheck
  <2>10. CASE NetInit \/ Process \/ Input \/ Poll \/ NoPoll
    BY <2>7, <2>10, SMT DEF NetInit, Process, Input, Poll, NoPoll
  <2>11. CASE \/ Tick \/ LinkLost \/ (\E m \in Modes : LinkRises(m)) \/ Negotiated
              \/ (\E d \in {"discover", "reboot"} : Datagram(d)) \/ BusError
              \/ (\E cb \in BOOLEAN : ServerStart(cb)) \/ ServerStop
    BY <2>6, <2>11 DEF Tick, LinkLost, LinkRises, Negotiated, Datagram, BusError,
      ServerStart, ServerStop, vars
  <2> QED
    BY <2>1, <2>2, <2>3, <2>4, <2>5, <2>8, <2>9, <2>10, <2>11 DEF Next, Main, Loop
<1>3. FlagInv => BootsAsAsked
  BY Zenon DEF FlagInv, Overtaken, BootsAsAsked
<1> QED
  BY <1>1, <1>2, <1>3, PTL DEF Spec
=============================================================================

------------------------------ MODULE MainLoop ------------------------------
(***************************************************************************)
(* The tox "main loop" of the client: ToxBackend::tick, which a single-    *)
(* shot timer runs again and again while tox is alive, with the calls it   *)
(* makes: isConnectedCheck, setConnected and bootstrap.                    *)
(*                                                                         *)
(* Everything runs on the one thread of the Qt event loop, so a tick is    *)
(* one step.  Its environment is the network, seen through                 *)
(* tox_isconnected: whether tox is on the DHT can change between any two   *)
(* ticks.  What happens when tox has been killed is in ToxBackend.tla.     *)
(***************************************************************************)
EXTENDS Integers, FiniteSets

CONSTANTS
    Tolerance,  \* CORE_DISCONNECT_TOLERANCE
    IntMin,     \* the least value of an int
    NodeCount,  \* number of entries of bootstrapNodes
    Burst,      \* nodes contacted by one call of bootstrap()
    UintRange   \* number of values of an unsigned int

ASSUME ToleranceAssumption == Tolerance \in Nat \ {0}
ASSUME IntMinAssumption    == IntMin \in Int /\ IntMin < 0
ASSUME NodesAssumption     == /\ NodeCount \in Nat \ {0}
                              /\ Burst \in Nat \ {0}
                              /\ UintRange \in Nat /\ UintRange > NodeCount

\* Two bursts are nodes of the table, and the counter wraps at an index that
\* leaves a burst room: 2 * 4 <= 18 and 2^32 % 18 = 4 >= 4.  With 17 nodes, for
\* one, 2^32 % 17 = 1, and a burst around the wrap would have a node twice.
ASSUME WrapAssumption == /\ 2 * Burst <= NodeCount
                         /\ UintRange % NodeCount \in {0} \cup Burst .. NodeCount

VARIABLES
    online,     \* the network: what tox_isconnected(tox) would answer now
    connected,  \* m_connected
    label,      \* what connectedLabel of main.qml shows
    tolerance,  \* the static local of tick()
    j,          \* the static local of bootstrap(): next node of the table
    outage,     \* history: disconnected ticks of the current outage
    tries,      \* history: calls of bootstrap() in the current outage
    contacted   \* history: the nodes of the last call of bootstrap()

vars == <<online, connected, label, tolerance, j, outage, tries, contacted>>

Nodes == 0 .. NodeCount - 1

FlagsOK ==
    online \in BOOLEAN /\ connected \in BOOLEAN /\ label \in BOOLEAN

CountersOK ==
    /\ tolerance \in IntMin .. Tolerance
    /\ j \in 0 .. UintRange - 1
    /\ outage \in 0 .. Tolerance - IntMin
    /\ tries \in Nat
    /\ contacted \in SUBSET Nodes

TypeOK == FlagsOK /\ CountersOK

-----------------------------------------------------------------------------
(* j starts at qrand() % nodeCount, drawn when bootstrap() first runs.     *)

Init ==
    /\ online = FALSE
    /\ connected = FALSE
    /\ label = FALSE
    /\ tolerance = Tolerance
    /\ j \in Nodes
    /\ outage = 0
    /\ tries = 0
    /\ contacted = {}

\* Mutant of LabelAfter: setConnected assigns and emits nothing.
LabelNotNotified(b) == label

\* setConnected(b): the signal connectedChanged, which alone makes QML
\* evaluate the label's binding again, is emitted only on a change.
LabelAfter(b) == IF connected # b THEN b ELSE label

SetConnected(b) ==
    /\ label' = LabelAfter(b)
    /\ connected' = b

\* Mutants of BootstrapDue: the test fires again on every later tick; it
\* compares with the start value, which the tolerance has just left.
BootstrapDueAgain(t) == t <= 0
BootstrapNeverDue(t) == t = Tolerance

\* The test !(--tolerance), on the decremented value.
BootstrapDue(t) == t = 0

\* Mutant of BurstFrom: the loop advances i and not j.
BurstOfOneNode(k) == {k % NodeCount}

\* The nodes a call of bootstrap() contacts when the counter starts at k:
\* the counter is unsigned, and wraps, before it is reduced to an index.
BurstFrom(k) == {((k + i) % UintRange) % NodeCount : i \in 0 .. Burst - 1}

\* Mutants of CounterAfter: a counter that does not wrap; a counter advanced
\* once a call and not once a node.
CounterUnbounded(k)   == k + Burst
CounterAfterOne(k)    == (k + 1) % UintRange

\* The counter after the call.
CounterAfter(k) == (k + Burst) % UintRange

Bootstrap ==
    /\ contacted' = BurstFrom(j)
    /\ j' = CounterAfter(j)
    /\ tries' = tries + 1

\* A tick that finds tox on the DHT.
TickOnline ==
    /\ online
    /\ SetConnected(TRUE)
    /\ tolerance' = Tolerance
    /\ outage' = 0
    /\ tries' = 0
    /\ UNCHANGED <<online, j, contacted>>

\* A tick that finds it off the DHT.  Bound: the guard stops where the next
\* decrement would overflow the int.
TickOffline ==
    /\ ~online
    /\ tolerance > IntMin
    /\ SetConnected(FALSE)
    /\ tolerance' = tolerance - 1
    /\ outage' = outage + 1
    /\ \/ BootstrapDue(tolerance - 1) /\ Bootstrap
       \/ ~BootstrapDue(tolerance - 1) /\ UNCHANGED <<j, tries, contacted>>
    /\ UNCHANGED online

Tick == TickOnline \/ TickOffline

\* The network goes up or down between two ticks.
NetworkChange ==
    /\ online' = ~online
    /\ UNCHANGED <<connected, label, tolerance, j, outage, tries, contacted>>

Next == Tick \/ NetworkChange

Spec == Init /\ [][Next]_vars

\* tick() always arms the timer again, so a live client keeps ticking.  The
\* network owes nothing.
FairSpec == Spec /\ WF_vars(Tick)

-----------------------------------------------------------------------------
(* Properties                                                              *)

\* An outage is answered by exactly one call of bootstrap(), made in the
\* tick numbered CORE_DISCONNECT_TOLERANCE: nothing resets the counter below
\* zero but a reconnection, so no later tick of the same outage tries again.
OneBootstrapPerOutage == tries = IF outage >= Tolerance THEN 1 ELSE 0

\* One call of bootstrap() contacts `Burst` different nodes, also across the
\* wrap of the unsigned counter, where the table index jumps.
BurstHasDistinctNodes == Cardinality(contacted) \in {0, Burst}

\* The counter persists between calls: two successive calls share no node,
\* unless it wraps in one of them.  Then the index starts again from 0, and
\* with as many nodes as the code has (2^32 % 18 = 4), they do share one.
NextBurstIsFresh ==
    [][(tries' > tries /\ contacted # {}) =>
          IF j \in Burst .. UintRange - Burst THEN contacted \cap contacted' = {}
          ELSE UintRange % NodeCount = Burst => contacted \cap contacted' # {}]_vars

\* An outage that never ends is answered: bootstrap() is called, once.
OutageIsAnswered == <>[](~online) => <>[](tries = 1)

\* When the network settles, the label settles on the truth.
LabelSettles ==
    /\ <>[]online => <>[]label
    /\ <>[](~online) => <>[](~label)
=============================================================================

--------------------------- MODULE PhpFpm_proofs ---------------------------
(***************************************************************************)
(* Proofs about one invocation of mackerel-plugin-php-fpm (PhpFpm), for   *)
(* every set of fields, statuses, objects and timeouts that satisfies     *)
(* ConstantsAssumption.                                                    *)
(***************************************************************************)
EXTENDS PhpFpm, TLAPS

USE ConstantsAssumption

\* Whatever object the server sends, the value json.Unmarshal leaves in a
\* field of PhpFpmStatus is a uint64: a mistyped value becomes zero.
LEMMA FieldValueType ==
    ASSUME NEW o, NEW f
    PROVE  FieldValue(o, f) \in Nat
BY DEF FieldValue

\* The initial state is well typed.
LEMMA TypeInit == Init => TypeOK
BY DEF Init, TypeOK

\* Every step of the plugin, the server and the timer keeps the state well
\* typed.
LEMMA TypeStep == TypeOK /\ [Next]_vars => TypeOK'
<1> SUFFICES ASSUME TypeOK, [Next]_vars PROVE TypeOK'
    OBVIOUS
<1>1. CASE SendRequest
    BY <1>1 DEF SendRequest, Finish, TypeOK
<1>2. CASE Deadline
    BY <1>2 DEF Deadline, Finish, TypeOK
<1>3. CASE Respond
    BY <1>3 DEF Respond, Finish, TypeOK
<1>4. CASE Decode
    <2>1. [f \in Fields |-> FieldValue(response.object, f)] \in [Fields -> Nat]
        BY FieldValueType
    <2>2. [f \in Fields |-> 0] \in [Fields -> Nat]
        OBVIOUS
    <2> QED
        BY <1>4, <2>1, <2>2 DEF Decode, Finish, TypeOK
<1>5. CASE UNCHANGED vars
    BY <1>5 DEF vars, TypeOK
<1> QED
    BY <1>1, <1>2, <1>3, <1>4, <1>5 DEF Next, PluginStep

\* TypeCorrect: in every run of the plugin, whatever the server answers and
\* whether or not the timer fires, the state is well typed; in particular
\* the map FetchMetrics returns is either not yet set or a uint64 for every
\* field.
THEOREM TypeCorrect == Spec => []TypeOK
BY TypeInit, TypeStep, PTL DEF Spec
=============================================================================

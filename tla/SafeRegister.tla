----------------------------- MODULE SafeRegister -----------------------------
(***************************************************************************)
(* What the store promises those who read it, without files: a register    *)
(* per service, safe in Lamport's sense and no more.  A read that no write *)
(* of the service overlaps returns the one value it holds, whatever is     *)
(* being done to other services, or is silent about it if it has missed    *)
(* it; a read that one overlaps may return anything.  A write that breaks  *)
(* off leaves the register unsettled until another one ends well.          *)
(***************************************************************************)
EXTENDS Deployments

CONSTANTS Clients,
          NoFile,     \* a service that is not registered holds this
          Unsettled   \* one that is being written, or was not written to the end

VARIABLES value,      \* value[s]
          relied,     \* relied[c]: the services whose values c's read will return
          missed,     \* missed[c]: the services c's read says nothing of
          result      \* result[c]: the <<service, config, secrets>> c's read has returned

Settled == {s \in Services : value[s] # Unsettled}

Entry(s) == IF value[s] = NoFile THEN {} ELSE {<<s, value[s], value[s]>>}

Told(c, s) == IF s \in missed[c] THEN {} ELSE Entry(s)

Init == /\ value \in [Services -> Versions \union {NoFile, Unsettled}]
        /\ relied = [c \in Clients |-> {}]
        /\ missed = [c \in Clients |-> {}]
        /\ result = [c \in Clients |-> {}]

Unsettle(s) == /\ value' = [value EXCEPT ![s] = Unsettled]
               /\ relied' = [c \in Clients |-> relied[c] \ {s}]
               /\ UNCHANGED <<missed, result>>

Settle(s, v) == /\ value[s] = Unsettled
                /\ value' = [value EXCEPT ![s] = v]
                /\ UNCHANGED <<relied, missed, result>>

BeginRead(c, names) == /\ relied[c] = {} /\ missed[c] = {} /\ names \subseteq Settled
                       /\ relied' = [relied EXCEPT ![c] = names]
                       /\ UNCHANGED <<value, missed, result>>

(* Once the read has returned, what it has missed is decided. *)
Miss(c, s) == /\ result[c] = {}
              /\ missed' = [missed EXCEPT ![c] = @ \union {s}]
              /\ UNCHANGED <<value, relied, result>>

FinishRead(c, found) == /\ \A s \in relied[c] : {e \in found : e[1] = s} = Told(c, s)
                        /\ result' = [result EXCEPT ![c] = found]
                        /\ UNCHANGED <<value, relied, missed>>

EndRead(c) == /\ relied' = [relied EXCEPT ![c] = {}]
              /\ missed' = [missed EXCEPT ![c] = {}]
              /\ result' = [result EXCEPT ![c] = {}]
              /\ UNCHANGED value

Next == \/ \E s \in Services : Unsettle(s) \/ \E v \in Versions \union {NoFile} : Settle(s, v)
        \/ \E c \in Clients : \/ \E names \in SUBSET Services : BeginRead(c, names)
                              \/ \E s \in Services : Miss(c, s)
                              \/ \E found \in SUBSET (Services \X Versions \X Versions) : FinishRead(c, found)
                              \/ EndRead(c)

Spec == Init /\ [][Next]_<<value, relied, missed, result>>
=============================================================================

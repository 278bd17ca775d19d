------------------------------ MODULE AuditLog ------------------------------
(***************************************************************************)
(* The append-only audit log, audit-service/logger.py over schema.sql, and *)
(* the hash chain over its rows, linux-stack/oversight/attestation.py.     *)
(*                                                                         *)
(* A row keeps the columns something decides on: the detection (its        *)
(* confidence stands for the five columns that describe it), command_sent, *)
(* stm32_ack and flag; the notes are left out.  The columns the chain      *)
(* commits to are those written when the row is.                           *)
(*                                                                         *)
(* SHA-256 is taken to be free of collisions, so a digest is represented   *)
(* by what was hashed: the sequence of canonical rows, oldest first.       *)
(***************************************************************************)
EXTENDS Integers, Sequences, FiniteSets

CONSTANT MaxRows   (* bound: rows in one database                            *)
ASSUME LogAssumption == MaxRows \in Nat

VARIABLES
  audit_log,   (* the rows, by id                                            *)
  next_id      (* AUTOINCREMENT: an id is never used twice                   *)

logVars == <<audit_log, next_id>>

Ids == 1 .. MaxRows
Confidences == {"below", "at", "above"}   (* of the gate's threshold         *)
Acks == {"NULL", "ACK", "REJECT"}
Row == [confidence : Confidences, command_sent : BOOLEAN, stm32_ack : Acks,
        flag : BOOLEAN]

LogTypeOK ==
  /\ next_id \in 1 .. MaxRows + 1
  /\ DOMAIN audit_log \subseteq 1 .. next_id - 1
  /\ \A id \in DOMAIN audit_log : audit_log[id] \in Row

EmptyLog == [id \in {} |-> {}]
LogInit == audit_log = EmptyLog /\ next_id = 1
NewLog == audit_log' = EmptyLog /\ next_id' = 1

-----------------------------------------------------------------------------
LogEventReusingId(confidence, command_sent) ==   (* mutant *)
  /\ next_id <= MaxRows
  /\ audit_log' = [id \in DOMAIN audit_log \cup {next_id} |->
       IF id \in DOMAIN audit_log THEN audit_log[id]
       ELSE [confidence |-> confidence, command_sent |-> command_sent,
             stm32_ack |-> "NULL", flag |-> FALSE]]
  /\ UNCHANGED next_id

LogEvent(confidence, command_sent) ==
  /\ next_id <= MaxRows
  /\ audit_log' = [id \in DOMAIN audit_log \cup {next_id} |->
       IF id \in DOMAIN audit_log THEN audit_log[id]
       ELSE [confidence |-> confidence, command_sent |-> command_sent,
             stm32_ack |-> "NULL", flag |-> FALSE]]
  /\ next_id' = next_id + 1

(* UPDATE ... WHERE stm32_ack IS NULL.                                       *)
UpdateAck(id, ack) ==
  /\ audit_log' = IF id \in DOMAIN audit_log /\ audit_log[id].stm32_ack = "NULL"
                    THEN [audit_log EXCEPT ![id].stm32_ack = ack]
                    ELSE audit_log
  /\ UNCHANGED next_id

FlagEventDropped(id) == UNCHANGED logVars   (* mutant *)

FlagEvent(id) ==
  /\ audit_log' = IF id \in DOMAIN audit_log
                    THEN [audit_log EXCEPT ![id].flag = TRUE] ELSE audit_log
  /\ UNCHANGED next_id

(* A reviewer at the dashboard flags a row, over a connection of his own; of *)
(* one that is not there he is told so.                                      *)
ReviewEvent(id) == id \in DOMAIN audit_log /\ FlagEvent(id)

-----------------------------------------------------------------------------
(* The chain.                                                                *)
GENESIS == <<>>

CanonicalWithFlag(id) == <<id, audit_log[id].confidence, audit_log[id].flag>>   (* mutant *)
CanonicalWithoutSent(id) == <<id, audit_log[id].confidence>>   (* mutant *)
Canonical(id) == <<id, audit_log[id].confidence, audit_log[id].command_sent>>

ChainStep(head, id) == Append(head, Canonical(id))

(* AuditChain.from_rows over ids up to one of them, in rowid order.          *)
Upto(id) == {other \in DOMAIN audit_log : other <= id}
NthId(ids, n) == CHOOSE id \in ids : Cardinality({other \in ids : other <= id}) = n
HeadAt(id) == [n \in 1 .. Cardinality(Upto(id)) |-> Canonical(NthId(Upto(id), n))]

(* find_gap: do the ids run 1 .. N?                                          *)
Contiguous == DOMAIN audit_log = 1 .. Cardinality(DOMAIN audit_log)

(* verify_database: is the log whole, and is every retained digest the head  *)
(* recomputed at its reference?                                              *)
VerifyDatabase(retained) ==
  /\ Contiguous
  /\ \A entry \in retained :
       /\ entry.ref \in DOMAIN audit_log
       /\ entry.digest = HeadAt(entry.ref)

-----------------------------------------------------------------------------
(* What no caller of the logger does, and verify_database is there to find:  *)
(* a stored row is rewritten, or deleted, behind the logger's back.          *)
RewriteRow(id) ==
  /\ id \in DOMAIN audit_log
  /\ audit_log' = [audit_log EXCEPT ![id].command_sent = ~@]
  /\ UNCHANGED next_id

DeleteRow(id) ==
  /\ id \in DOMAIN audit_log
  /\ audit_log' = [other \in DOMAIN audit_log \ {id} |-> audit_log[other]]
  /\ UNCHANGED next_id
=============================================================================

----------------------------- MODULE MCContracts -----------------------------
EXTENDS IdempotentApi, WorkflowSubject, ProtoJson

CONSTANTS c1, c2

Keys == [c \in Clients |-> IF c = c1 THEN 2 ELSE 1]
SubjectChanges == [m \in Machines |-> IF m = "migration" THEN 6 ELSE 8]

ApiOff ==
  /\ mode = "off" /\ version = 0 /\ ledger = <<>> /\ network = {}
  /\ calls = [c \in Clients |-> [key |-> 0, body |-> NoBody, told |-> "nothing", about |-> NoBody]]

SubjectOff ==
  /\ machine = "decision" /\ state = Start(machine) /\ facts = {}
  /\ recordVersion = 0 /\ pending = {} /\ entered = {} /\ noteCount = 0

JsonOff ==
  origin = EmptyFrame /\ text = <<>> /\ trailing = FALSE /\ stage = "parse"

\* A resource under requests, a subject under transitions, or a frame in JSON, one of
\* them in a behavior.
ContractsInit ==
  \/ ApiInit /\ SubjectOff /\ JsonOff /\ JsonInit
  \/ SubjectInit /\ ApiOff /\ JsonOff /\ JsonInit
  \/ JsonInit /\ ApiOff /\ SubjectOff
ContractsNext ==
  \/ mode # "off" /\ ApiNext /\ UNCHANGED <<subjectVars, jsonVars>>
  \/ mode = "off" /\ JsonOff /\ SubjectNext /\ UNCHANGED <<apiVars, jsonVars>>
  \/ mode = "off" /\ SubjectOff /\ JsonNext /\ UNCHANGED <<apiVars, subjectVars>>
ContractsSpec == ContractsInit /\ [][ContractsNext]_<<apiVars, subjectVars, jsonVars>>
=============================================================================

----------------------------- MODULE GrantLifecycle -----------------------------
(***************************************************************************)
(* What liveusb/backend/factory_execution.py promises of its grants: at    *)
(* most one is open, each authorises one run of the factory commands, and  *)
(* it gets one terminal phase, after its last command, that tells the      *)
(* truth about that run.  FactoryRecords implements this specification.    *)
(***************************************************************************)
EXTENDS Naturals

CONSTANTS
  Grants,       \* grant identifiers
  NumCommands   \* factory commands of a complete rebuild

Open     == {"issued", "consumed"}
Terminal == {"revoked", "succeeded", "failed", "interrupted"}
Phases   == Open \cup Terminal

VARIABLES
  phase,      \* of each grant; "none" before it is issued
  authority,  \* grants whose one execution may start another command
  executed,   \* number of factory commands started for each grant
  busy        \* grants for which a factory command runs

lvars == <<phase, authority, executed, busy>>

LInit ==
  /\ phase = [g \in Grants |-> "none"]
  /\ authority = {}
  /\ executed = [g \in Grants |-> 0]
  /\ busy = {}

Become(g, s) == phase' = [phase EXCEPT ![g] = s]

Issue(g) ==
  /\ phase[g] = "none" /\ \A h \in Grants : phase[h] \notin Open
  /\ Become(g, "issued")
  /\ UNCHANGED <<authority, executed, busy>>

\* Issuing failed; nobody was told of the grant.
Withdraw(g) ==
  /\ phase[g] = "issued"
  /\ Become(g, "none")
  /\ UNCHANGED <<authority, executed, busy>>

Revoke(g) ==
  /\ phase[g] = "issued"
  /\ Become(g, "revoked")
  /\ UNCHANGED <<authority, executed, busy>>

\* The only way to authority; the process may die or fail at once.
Consume(g) ==
  /\ phase[g] = "issued"
  /\ Become(g, "consumed")
  /\ authority' \in {authority, authority \cup {g}}
  /\ UNCHANGED <<executed, busy>>

StartFactoryCommand(g) ==
  /\ phase[g] = "consumed" /\ g \in authority
  /\ g \notin busy /\ executed[g] < NumCommands
  /\ executed' = [executed EXCEPT ![g] = @ + 1]
  /\ busy' = busy \cup {g}
  /\ UNCHANGED <<phase, authority>>

EndFactoryCommand(g) ==
  /\ g \in busy /\ busy' = busy \ {g}
  /\ authority' \in {authority, authority \ {g}}
  /\ UNCHANGED <<phase, executed>>

\* The process that executes the grant dies, with or without its command, or
\* comes to an end of its own.
Lapse(g) ==
  /\ g \in authority
  /\ authority' = authority \ {g}
  /\ busy' \in {busy, busy \ {g}}
  /\ UNCHANGED <<phase, executed>>

Conclude(g, s) ==
  /\ phase[g] = "consumed" /\ g \notin authority /\ g \notin busy
  /\ s = "succeeded" => executed[g] = NumCommands
  /\ Become(g, s)
  /\ UNCHANGED <<authority, executed, busy>>

LNext ==
  \E g \in Grants :
    \/ Issue(g) \/ Withdraw(g) \/ Revoke(g) \/ Consume(g)
    \/ StartFactoryCommand(g) \/ EndFactoryCommand(g) \/ Lapse(g)
    \/ \E s \in Terminal \ {"revoked"} : Conclude(g, s)

LSpec == LInit /\ [][LNext]_lvars
================================================================================

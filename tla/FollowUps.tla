----------------------------- MODULE FollowUps -----------------------------
(***************************************************************************)
(* The records that the tools of several conversations write at once:      *)
(* claims and support tickets, numbered by next_number (tools/_util.py),   *)
(* appointments and contact details.  Each conversation runs one tool at   *)
(* a time on its own database session.  A tool that files                  *)
(* something counts the rows of its table and inserts later, without a     *)
(* lock, so that its commit may find the number taken.                     *)
(*                                                                         *)
(* A call is one the tool's gate lets through (Specialists has the gates   *)
(* and what is refused).  Nobody deletes rows: seeding again, which empties *)
(* every table, is not modelled.                                           *)
(***************************************************************************)
EXTENDS Integers, Sequences, FiniteSets, Records

CONSTANTS
    Conversations,
    CustomerOf,     \* whom each is verified as, or None
    SeedClaims,     \* whose are the claims there are at the start
    Disputed,       \* those of them that are in dispute
    Contacts,       \* contact details
    MaxRows,        \* bound on the claims, and on the tickets
    MaxAppointments

ASSUME CustomerAssumption == CustomerOf \in [Conversations -> Customers \cup {None}]
ASSUME SeedAssumption ==
    SeedClaims \in Seq(Customers) /\ Disputed \subseteq DOMAIN SeedClaims
ASSUME MaxRowsAssumption == MaxRows \in Nat /\ MaxAppointments \in Nat

VARIABLES
    claims,         \* claim numbers in use to their rows
    tickets,        \* ticket numbers in use to their rows
    appointments,   \* ids to rows
    contact,        \* of each customer
    call,           \* the tool each conversation is in, Idle or Raised
    told,           \* history: what conversations were told
    overtaken       \* history: conversations into whose table a row came since they counted

fvars == <<claims, tickets, appointments, contact, call, told, overtaken>>

Idle == [tool |-> "none"]
Raised == [tool |-> "raised"]   \* the commit failed: the turn ends by an error

\* Tools that open a ticket; only a handover can be asked for without verification.
TicketTools == {"escalate_claim_dispute", "request_policy_change", "create_support_ticket",
                "transfer_to_human"}
Open == {"create_support_ticket", "transfer_to_human"}
FilingTools == TicketTools \cup {"create_claim"}

Told(c, tool, number, about) == [to |-> c, tool |-> tool, number |-> number, about |-> about]

FInit ==
    /\ claims = [n \in DOMAIN SeedClaims |->
                   [customer |-> SeedClaims[n], disputed |-> n \in Disputed, by |-> None]]
    /\ tickets = [n \in {} |-> None]
    /\ appointments = [n \in {} |-> None]
    /\ contact \in [Customers -> Contacts]
    /\ call = [c \in Conversations |-> Idle]
    /\ told = {}
    /\ overtaken = {}

-----------------------------------------------------------------------------
Table(tool) == IF tool = "create_claim" THEN claims ELSE tickets

\* next_number: the rows are counted.
Count(tool) == Cardinality(DOMAIN Table(tool))

Own(c) == {n \in DOMAIN claims : CustomerOf[c] # None /\ claims[n].customer = CustomerOf[c]}

\* The records a call may be about.
Subjects(c, tool) == IF tool = "escalate_claim_dispute" THEN Own(c) ELSE {None}

\* The tool has passed its gate, read what it is about and counted.
Begin(c, tool) ==
    /\ call[c] = Idle
    /\ tool \in Open \/ CustomerOf[c] # None
    /\ \E n \in Subjects(c, tool) :
          call' = [call EXCEPT ![c] = [tool |-> tool, about |-> n, count |-> Count(tool)]]
    /\ UNCHANGED <<claims, tickets, appointments, contact, told, overtaken>>

\* A plausible bug: rows are numbered from 0.
NumberFromZero(c) == call[c].count

Number(c) == call[c].count + 1

Busy(c, tools) == call[c].tool \in tools

Row(c) == [customer |-> CustomerOf[c], tool |-> call[c].tool, about |-> call[c].about, by |-> c]

\* What a new row makes of those who have counted without it.
Overtake(c) ==
    {d \in Conversations \ {c} :
        \/ d \in overtaken
        \/ Busy(d, FilingTools) /\ (call[d].tool = "create_claim") = (call[c].tool = "create_claim")}

Answered(c, number, about) ==
    /\ call' = [call EXCEPT ![c] = Idle]
    /\ told' = told \cup {Told(c, call[c].tool, number, about)}

\* create_claim: the number is unique.
CommitClaim(c) ==
    /\ Busy(c, {"create_claim"})
    /\ Number(c) \notin DOMAIN claims /\ Number(c) <= MaxRows
    /\ claims' = [n \in DOMAIN claims \cup {Number(c)} |->
                    IF n = Number(c)
                    THEN [customer |-> CustomerOf[c], disputed |-> FALSE, by |-> c]
                    ELSE claims[n]]
    /\ Answered(c, Number(c), None)
    /\ overtaken' = Overtake(c)
    /\ UNCHANGED <<tickets, appointments, contact>>

\* A plausible bug: a number that is taken is written over.
CommitTicketOver(c) ==
    /\ Busy(c, TicketTools)
    /\ Number(c) <= MaxRows
    /\ tickets' = [n \in DOMAIN tickets \cup {Number(c)} |->
                     IF n = Number(c) THEN Row(c) ELSE tickets[n]]
    /\ Answered(c, Number(c), call[c].about)
    /\ overtaken' = Overtake(c)
    /\ UNCHANGED <<claims, appointments, contact>>

\* The other tools that file; a dispute marks its claim in the same commit.
CommitTicket(c) ==
    /\ Busy(c, TicketTools)
    /\ Number(c) \notin DOMAIN tickets /\ Number(c) <= MaxRows
    /\ tickets' = [n \in DOMAIN tickets \cup {Number(c)} |->
                     IF n = Number(c) THEN Row(c) ELSE tickets[n]]
    /\ claims' = [n \in DOMAIN claims |->
                    IF call[c].tool = "escalate_claim_dispute" /\ n = call[c].about
                    THEN [claims[n] EXCEPT !.disputed = TRUE] ELSE claims[n]]
    /\ Answered(c, Number(c), call[c].about)
    /\ overtaken' = Overtake(c)
    /\ UNCHANGED <<appointments, contact>>

\* The number is taken: Tool.run swallows the error, but the session is rolled back under the
\* turn, which raises at its next use of a row.  The caller tries again in another turn.
Collide(c) ==
    /\ Busy(c, FilingTools)
    /\ Number(c) \in DOMAIN Table(call[c].tool)
    /\ call' = [call EXCEPT ![c] = Raised]
    /\ UNCHANGED <<claims, tickets, appointments, contact, told, overtaken>>

NextTurn(c) ==
    /\ call[c] = Raised
    /\ call' = [call EXCEPT ![c] = Idle]
    /\ overtaken' = overtaken \ {c}
    /\ UNCHANGED <<claims, tickets, appointments, contact, told>>

-----------------------------------------------------------------------------
(***************************************************************************)
(* Tools that write a row that is there.  No specialist plans them.        *)
(***************************************************************************)
\* schedule_agent_call, schedule_adjuster_call.
Schedule(c) ==
    LET id == Cardinality(DOMAIN appointments) + 1
    IN  /\ call[c] = Idle /\ CustomerOf[c] # None /\ id <= MaxAppointments
        /\ appointments' = [i \in DOMAIN appointments \cup {id} |->
                              IF i = id
                              THEN [customer |-> CustomerOf[c], status |-> "scheduled"]
                              ELSE appointments[i]]
        /\ UNCHANGED <<claims, tickets, contact, call, told, overtaken>>

\* reschedule_appointment, whatever the status, and cancel_appointment.
Revise(c) ==
    /\ call[c] = Idle /\ CustomerOf[c] # None
    /\ \E i \in DOMAIN appointments, status \in {"rescheduled", "cancelled"} :
          /\ appointments[i].customer = CustomerOf[c]
          /\ appointments' = [appointments EXCEPT ![i].status = status]
    /\ UNCHANGED <<claims, tickets, contact, call, told, overtaken>>

\* update_contact_information.
UpdateContact(c) ==
    /\ call[c] = Idle /\ CustomerOf[c] # None
    /\ \E value \in Contacts : contact' = [contact EXCEPT ![CustomerOf[c]] = value]
    /\ UNCHANGED <<claims, tickets, appointments, call, told, overtaken>>

FNext ==
    \E c \in Conversations :
        \/ \E tool \in FilingTools : Begin(c, tool)
        \/ CommitClaim(c) \/ CommitTicket(c) \/ Collide(c) \/ NextTurn(c)
        \/ Schedule(c) \/ Revise(c) \/ UpdateContact(c)

FSpec == FInit /\ [][FNext]_fvars

-----------------------------------------------------------------------------
(***************************************************************************)
(* Properties.                                                             *)
(***************************************************************************)
Calls ==
    {Idle, Raised} \cup
    [tool : TicketTools \cup {"create_claim"}, about : DOMAIN claims \cup {None}, count : Nat]

FTypeOK ==
    /\ \A n \in DOMAIN claims :
          claims[n] \in [customer : Customers, disputed : BOOLEAN,
                        by : Conversations \cup {None}]
    /\ \A n \in DOMAIN tickets :
          tickets[n] \in [customer : Customers \cup {None}, tool : TicketTools,
                         about : DOMAIN claims \cup {None}, by : Conversations]
    /\ contact \in [Customers -> Contacts]
    /\ call \in [Conversations -> Calls]
    /\ overtaken \subseteq Conversations

\* The numbers in use are those from 1 to the number of rows, so that count + 1 is free at
\* the time it is computed ("stable and collision-free", tools/_util.py:16).
NumbersAreDense ==
    /\ DOMAIN claims = 1..Cardinality(DOMAIN claims)
    /\ DOMAIN tickets = 1..Cardinality(DOMAIN tickets)

\* A filing fails over its number exactly when another one was committed in its table since
\* it counted: whoever files alone succeeds, and of several that file at once the first does.
FailsForCause ==
    \A c \in Conversations :
        /\ Busy(c, FilingTools) => (Number(c) \in DOMAIN Table(call[c].tool) <=> c \in overtaken)
        /\ call[c] = Raised => c \in overtaken

ClaimOnFile(t) ==
    /\ t.number \in DOMAIN claims
    /\ claims[t.number].by = t.to
    /\ claims[t.number].customer = CustomerOf[t.to]

TicketOnFile(t) ==
    /\ t.number \in DOMAIN tickets
    /\ tickets[t.number].by = t.to
    /\ tickets[t.number].tool = t.tool
    /\ tickets[t.number].about = t.about
    /\ t.tool = "escalate_claim_dispute" => t.about \in DOMAIN claims /\ claims[t.about].disputed

\* What a conversation was told it has filed is on file under that number, filed by it and
\* about what it asked; no other was told the same number; a dispute also marks its claim.
ToldIsOnFile ==
    \A t \in told : IF t.tool = "create_claim" THEN ClaimOnFile(t) ELSE TicketOnFile(t)
=============================================================================

--------------------------- MODULE EventPipeline ---------------------------
(***************************************************************************)
(* The outbox of the Savia API together with the delivery of its events in *)
(* Savia Flows: the two meet in the POST of a dispatch pass                *)
(* (apps/api/src/savia-flows/event-dispatch.ts), whose admission by Flows  *)
(* tells the host of every delivery of the event.                          *)
(*                                                                         *)
(* Flows is the abstract EventDelivery, for all events and subscriptions.  *)
(* CollectionEventAdmissions and CollectionEventBatches implement it for   *)
(* one event and for one subscription, the admissions as long as no        *)
(* subscription watches fields.                                            *)
(***************************************************************************)
EXTENDS CollectionEventOutbox

CONSTANT Subscriptions

VARIABLES
  form, outcome, begun, told,  \* the deliveries, see EventDelivery
  withdrawn  \* those with no claim: their subscription was changed or deleted,
             \* or came after the event

flowsVars    == <<form, outcome, begun, told>>
pipelineVars == <<vars, flowsVars, withdrawn>>

Deliveries == Events \X Subscriptions

Flows == INSTANCE EventDelivery

PipelineInit == Init /\ Flows!DInit /\ withdrawn = {}

\* A POST that makes Flows answer that it has admitted the event.  Repeated
\* ones tell the host nothing new.
Admit ==
  /\ \E d \in Dispatchers, e \in Events \ received :
       /\ Send(d)
       /\ received' = received \cup {e}
       /\ Flows!Tell(({e} \X Subscriptions) \ withdrawn)
  /\ UNCHANGED withdrawn

HostStep == Next /\ UNCHANGED <<received, flowsVars, withdrawn>>

FlowsStep ==
  /\ \/ \E d \in Deliveries, f \in Flows!Forms : Flows!TakeIn(d, f)
     \/ \E R, S \in SUBSET Deliveries : Flows!Run(R, S)
     \/ \E S \in SUBSET Deliveries : Flows!Skip(S)
  /\ UNCHANGED <<vars, withdrawn>>

Reconfigure ==
  /\ \E S \in SUBSET Deliveries :
       Flows!Withdraw(S) /\ withdrawn' = withdrawn \cup S
  /\ UNCHANGED vars

PipelineNext == Admit \/ HostStep \/ FlowsStep \/ Reconfigure

PipelineSpec == PipelineInit /\ [][PipelineNext]_pipelineVars

-----------------------------------------------------------------------------

\* A delivery that Flows cannot forget: a durable receipt, or a decision, and
\* an acceptance only with a run.
Handled(d) ==
  \/ form[d] = "receipt"
  \/ outcome[d] = "skipped"
  \/ outcome[d] = "accepted" /\ d \in begun

\* An event that the host has settled as delivered, and may have purged, is
\* handled for each subscription that still has a claim to it, whatever passes
\* overlapped or died and whatever answers were lost.
SettledIsHandled ==
  \A e \in Events, s \in Subscriptions :
    /\ status[e] \in {"delivered", "purged"}
    /\ <<e, s>> \notin withdrawn
    => Handled(<<e, s>>)
=============================================================================

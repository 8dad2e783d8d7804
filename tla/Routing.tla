------------------------------ MODULE Routing ------------------------------
(***************************************************************************)
(* `orchestrator route TEXT`: the text is turned into a decision by the    *)
(* keyword rules, by the loopback broker, or by the broker with the rules  *)
(* as a fallback, and the decision is checked against catalog and policy   *)
(* and perhaps executed.  What listens on the port is external: the        *)
(* Android broker, which reads its model's output with BrokerProtocol, or  *)
(* some other server.                                                      *)
(*                                                                         *)
(* Abstractions.  Output is what a decision looks like to its readers:     *)
(* how the object lies in the text, and the class of each field (of its    *)
(* last occurrence).  Absent and null are one class where both readers     *)
(* treat them alike.  Confidence is 0 (also: absent), 1 (below a threshold *)
(* of 2), 2, or 3 for what is no number from 0 to 1.  Arguments fit if     *)
(* they are what the action's schema asks for; with "nulls" they would be, *)
(* were it not for members that are null.  `sound` is false when there is  *)
(* an unknown field, or arguments, reason or source are not what they must *)
(* be.  An answer that is too long counts as one that failed.              *)
(***************************************************************************)
EXTENDS Naturals, FiniteSets

CONSTANTS
  Catalog,        \* TRUSTED_ACTIONS
  Plans,          \* those whose result says approval_required: cleanup_plan
  OtherAction,    \* canonical names that are not in the catalog
  NoAction, Malformed,
  MinConfidence   \* orchestrator.minimum_confidence

Action == Catalog \cup OtherAction
ASSUME ActionAssumption ==
  /\ Plans \subseteq Catalog /\ Catalog \cap OtherAction = {}
  /\ NoAction \notin Action /\ Malformed \notin Action /\ NoAction # Malformed
  /\ MinConfidence \in 0 .. 2

RouteKind == {"direct_action", "delegate", "clarify", "reject"}
Arguments == {"fit", "nulls", "unfit"}
(* An object is alone; wrapped in other text; one of its fields is         *)
(* repeated; it is the readable part inside of malformed text; or there    *)
(* are several.                                                            *)
Form == {"plain", "wrapped", "repeated", "inner", "several"}
ObjectText == [form : Form, kind : RouteKind \cup {"planner", "unknown"},
           action : Action \cup {NoAction, Malformed}, confidence : 0 .. 3,
           args : Arguments, source : {"absent", "named"}, sound : BOOLEAN]
CallText == [form : {"call"}, kind : {"direct_action"}, action : Action \cup {Malformed},
         confidence : {2}, args : Arguments, source : {"absent"}, sound : BOOLEAN]
WordText == [form : {"word"}, kind : {"planner", "clarify", "reject"}, action : {NoAction},
         confidence : {2}, args : {"fit"}, source : {"absent"}, sound : {TRUE}]
Output == ObjectText \cup CallText \cup WordText
NoDecision == [kind |-> "none"]

Canonical(kind) == IF kind = "planner" THEN "delegate" ELSE kind

-----------------------------------------------------------------------------
\* Mistake: an action beside another kind is let through.
BrokerAcceptsAnyAction(o) ==
  /\ o.form = "plain" /\ Canonical(o.kind) \in RouteKind
  /\ o.kind = "direct_action" => o.action \in Action
  /\ o.action # Malformed /\ o.confidence \in 0 .. 2 /\ o.sound

(* BrokerProtocol.parseDecision reads the broker's own model.              *)
BrokerAccepts(o) ==
  /\ o.form = "plain" /\ Canonical(o.kind) \in RouteKind
  /\ IF o.kind = "direct_action" THEN o.action \in Action ELSE o.action = NoAction
  /\ o.confidence \in 0 .. 2 /\ o.sound

(* decisionJson names every field, the source too, and Gson leaves out     *)
(* members that are null.                                                  *)
Rendered(o) ==
  [o EXCEPT !.kind = Canonical(@), !.args = IF @ = "nulls" THEN "fit" ELSE @,
            !.source = IF @ = "absent" THEN "litertlm" ELSE @]

\* Mistake: the first of several objects is taken.
ClientAcceptsFirst(o) ==
  /\ Canonical(o.kind) \in RouteKind /\ o.confidence \in 0 .. 2 /\ o.sound
  /\ IF o.kind = "direct_action" THEN o.action \in Action ELSE o.action = NoAction

(* parse_router_output with RouteDecision.__post_init__.  Texts that begin *)
(* with "planner:", "clarify:", "reject:" or "call:" count as certain;     *)
(* otherwise the text must hold one object that can be read, whatever is   *)
(* around it; of a field that occurs twice the last value counts.          *)
ClientAccepts(o) ==
  /\ o.form # "several"
  /\ Canonical(o.kind) \in RouteKind /\ o.confidence \in 0 .. 2 /\ o.sound
  /\ IF o.kind = "direct_action" THEN o.action \in Action ELSE o.action = NoAction

ClientReads(o) ==
  [kind |-> Canonical(o.kind), action |-> o.action, confidence |-> o.confidence, args |-> o.args,
   source |-> IF o.form = "call" THEN "functiongemma"
              ELSE IF o.source = "absent" THEN "router" ELSE o.source]

(* LoopbackRouterClient.route: what may come back, and its category.       *)
Status == {"302", "401", "403", "404", "429", "500", "502", "503", "504", "other"}
StatusCategory(s) ==
  CASE s = "302" -> "redirect"     [] s = "401" -> "authentication"
    [] s = "403" -> "authorization" [] s = "404" -> "not_found"
    [] s = "429" -> "rate_limited"  [] s \in {"502", "503", "504"} -> "service_unavailable"
    [] OTHER -> "http_error"
Transport == {"network", "timeout"}
BadBody == {"encoded", "bad_length", "oversized", "not_json"}
BodyCategory(b) == IF b = "oversized" THEN "response_too_large" ELSE "invalid_response"
FallbackCategories == {"network", "timeout", "service_unavailable"}

-----------------------------------------------------------------------------
VARIABLES
  mode,      \* orchestrator.router_mode
  token,     \* COMPTEXT_BROKER_TOKEN is set
  execute,   \* --execute
  keyword,   \* the action the keyword rules find in the text, or NoAction
  fits,      \* the text is within MAX_ROUTER_INPUT_BYTES
  at,        \* where the command is
  answer,    \* history: what the server's decision looked like
  byBroker,  \* history: it came from the Android broker with status 200
  category,  \* RouterError.category
  decision,
  ran,       \* the actions executed
  result     \* OrchestratorResult.status

routeVars == <<mode, token, execute, keyword, fits, at, answer, byBroker, category,
               decision, ran, result>>
command == <<mode, token, execute, keyword, fits>>

RouteInit ==
  /\ mode \in {"keyword", "broker", "auto"} /\ token \in BOOLEAN /\ execute \in BOOLEAN
  /\ keyword \in Catalog \cup {NoAction} /\ fits \in BOOLEAN
  /\ at = "build" /\ answer = NoDecision /\ byBroker = FALSE /\ category = "none"
  /\ decision = NoDecision /\ ran = {} /\ result = "none"

KeywordDecision(source) ==
  [kind |-> IF keyword = NoAction THEN "delegate" ELSE "direct_action", action |-> keyword,
   confidence |-> IF keyword = NoAction THEN 1 ELSE 2, args |-> "fit", source |-> source]

Raise(c) == category' = c /\ at' = "error" /\ UNCHANGED decision
Decided(d) == decision' = d /\ at' = "decided" /\ UNCHANGED category
Done(status) == result' = status /\ at' = "done"

(* _build_orchestrator: a broker client without a token raises, outside of *)
(* handle(); in auto mode there is just no broker.                         *)
Build ==
  /\ at = "build"
  /\ \/ mode = "keyword" /\ Decided(KeywordDecision("keyword")) /\ UNCHANGED result
     \/ mode = "broker" /\ ~token /\ Done("raised") /\ UNCHANGED <<category, decision>>
     \/ mode = "auto" /\ ~token /\ Raise("configuration") /\ UNCHANGED result
     \/ /\ mode # "keyword" /\ token /\ UNCHANGED result
        /\ IF fits THEN at' = "sent" /\ UNCHANGED <<category, decision>>
           ELSE Raise("request_too_large")
  /\ UNCHANGED <<command, answer, byBroker, ran>>

(* Nothing answers, or not with a decision.                                *)
Fail ==
  /\ at = "sent"
  /\ \/ \E c \in Transport : Raise(c)
     \/ \E s \in Status : Raise(StatusCategory(s))
     \/ \E b \in BadBody : Raise(BodyCategory(b))
  /\ UNCHANGED <<command, answer, byBroker, ran, result>>

(* A body whose `decision`, message text or whole is read as a decision.   *)
(* The broker renders anew what it read, and sends 400 instead of what it  *)
(* does not accept.                                                        *)
Receive(o, broker) ==
  /\ at = "sent"
  /\ broker => BrokerAccepts(o)
  /\ answer' = o /\ byBroker' = broker
  /\ LET text == IF broker THEN Rendered(o) ELSE o
     IN IF ClientAccepts(text) THEN Decided(ClientReads(text)) ELSE Raise("invalid_response")
  /\ UNCHANGED <<command, ran, result>>

(* AutoRouter falls back; otherwise handle() turns the error into a        *)
(* rejection.                                                              *)
Fallback ==
  /\ at = "error"
  /\ IF mode = "auto" /\ category \in FallbackCategories
     THEN /\ decision' = KeywordDecision("keyword_fallback") /\ at' = "decided"
          /\ UNCHANGED result
     ELSE Done("error") /\ UNCHANGED decision
  /\ UNCHANGED <<command, answer, byBroker, category, ran>>

(* OrchestratorService.handle after routing.  No catalog action needs an   *)
(* approval beforehand, and the policy is not in safe mode.                *)
Handle ==
  /\ at = "decided"
  /\ \/ decision.kind # "direct_action" /\ Done(decision.kind) /\ UNCHANGED ran
     \/ /\ decision.kind = "direct_action" /\ decision.confidence < MinConfidence
        /\ Done("delegate") /\ UNCHANGED ran
     \/ /\ decision.kind = "direct_action" /\ decision.confidence >= MinConfidence
        /\ \/ /\ decision.action \notin Catalog \/ decision.args # "fit"
              /\ Done("rejected") /\ UNCHANGED ran
           \/ /\ decision.action \in Catalog /\ decision.args = "fit"
              /\ IF execute
                 THEN /\ ran' = ran \cup {decision.action}
                      /\ \/ Done(IF decision.action \in Plans THEN "approval_required"
                                 ELSE "completed")
                         \/ Done("rejected")   \* the tool raises
                 ELSE Done("preview") /\ UNCHANGED ran
  /\ UNCHANGED <<command, answer, byBroker, category, decision>>

RouteNext ==
  \/ Build \/ Fail \/ Fallback \/ Handle
  \/ at = "sent" /\ \E o \in Output, b \in BOOLEAN : Receive(o, b)

RouteSpec == RouteInit /\ [][RouteNext]_routeVars

-----------------------------------------------------------------------------
(* What runs was asked for: with --execute, one action of the catalog, and *)
(* either the user's own words name it, and the broker is not to be asked  *)
(* or cannot be reached, or it is the decision of the one object that can  *)
(* be read in a server's text, with enough confidence and with arguments   *)
(* that fit (null members left out only by the broker).  That the text may *)
(* be malformed around the object, or name a field twice, is another       *)
(* matter (AmbiguousNeverRuns).  An error of authentication, of a limit, a *)
(* redirect or a bad answer runs nothing (service.py, router.py).          *)
OnlyAskedRuns ==
  \A a \in ran :
    /\ execute /\ a \in Catalog /\ ran = {a}
    /\ \/ /\ a = keyword
          /\ mode = "keyword" \/ (mode = "auto" /\ category \in FallbackCategories)
       \/ /\ token /\ mode # "keyword" /\ category = "none"
          /\ answer.kind = "direct_action" /\ answer.action = a /\ answer.form # "several"
          /\ answer.args = "fit" \/ (byBroker /\ answer.args = "nulls")
          /\ answer.sound /\ answer.confidence \in MinConfidence .. 2

(* Whatever decision the broker passes on, the client understands it, and  *)
(* understands what the broker read: the same kind, action and confidence, *)
(* the source that the model or else the broker named, and arguments that  *)
(* differ by null members at most (BrokerProtocol.kt lines 88-119,         *)
(* parser.py).                                                             *)
BrokerUnderstood ==
  byBroker =>
    /\ category = "none"
    /\ decision.kind = Canonical(answer.kind) /\ decision.action = answer.action
    /\ decision.confidence = answer.confidence
    /\ decision.source = IF answer.source = "absent" THEN "litertlm" ELSE answer.source
    /\ decision.args = "fit" <=> answer.args \in {"fit", "nulls"}

(* "Malformed or ambiguous model output never executes"                    *)
(* (docs/architecture/orchestrator-contract.md line 30): a server's        *)
(* decision runs only if its text is a call or holds one object, whole,    *)
(* with no field twice.                                                    *)
AmbiguousNeverRuns ==
  ran # {} /\ mode # "keyword" /\ category = "none" =>
    answer.form \in {"plain", "wrapped", "call"}
=============================================================================

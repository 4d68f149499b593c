----------------------------- MODULE OrderTicket -----------------------------
(* The order ticket of a page (features/trading/OrderTicket.tsx and              *)
(* OrderConfirmationDialog.tsx) against the two routes that it calls. The form    *)
(* stays in use while a preview is on its way, and a confirmation may be handled  *)
(* although its answer is lost.                                                   *)
EXTENDS FiniteSets, Naturals

CONSTANTS
  Forms,          \* contents of the form, with the symbol of the page: [symbol, type, limitPrice]
  FirstForm,      \* and what it begins with
  Normalized(_),  \* the order that the server makes of a draft
  MaxPreviews,    \* bound of the previews that are asked for
  MaxPresses,     \* bound of the presses of the submit button
  Nothing

\* The value of a variable that is not set is no key.
ASSUME TicketAssumption == Nothing \notin Nat

VARIABLES
  status,         \* of Alpaca Paper: "checking", "ready" or "off", which a drift also is
  form, open,     \* the form's contents, and whether it was opened
  preview,        \* the variable preview: a token, or Nothing
  expired,        \* as of the last rendering
  busy,
  asked,          \* the draft of the preview request under way, or Nothing
  awaited,        \* the key of the confirmation under way, or Nothing
  tokens,         \* the tokens that were signed, [id, order]
  lapsed,         \* tokens whose 60 seconds are over
  confirmations,  \* the requests to create an intent, [key, token, pc]
  orders,         \* order intents, [key, token, order]
  unanswered      \* history: confirmations whose answer never came

formVars == <<status, form, open, preview, expired, busy, asked, awaited>>
deskVars == <<tokens, lapsed, confirmations, orders, unanswered>>
ticketVars == <<formVars, deskVars>>

TicketInit ==
  /\ status = "checking" /\ form = FirstForm /\ open = FALSE /\ preview = Nothing
  /\ expired = FALSE /\ busy = FALSE /\ asked = Nothing /\ awaited = Nothing
  /\ tokens = {} /\ lapsed = {} /\ confirmations = {} /\ orders = {} /\ unanswered = {}

\* Every rendering compares the time with the end of the preview it shows.
Rendered == expired' = (preview' # Nothing /\ preview' \in lapsed)

StatusArrives ==
  /\ status = "checking" /\ status' \in {"ready", "off"}
  /\ UNCHANGED <<form, open, preview, busy, asked, awaited, deskVars>> /\ Rendered

OpenForm ==
  /\ status = "ready" /\ ~open /\ preview = Nothing
  /\ open' = TRUE
  /\ UNCHANGED <<status, form, preview, busy, asked, awaited, deskVars>> /\ Rendered

CloseForm ==
  /\ status = "ready" /\ open /\ preview = Nothing
  /\ open' = FALSE
  /\ UNCHANGED <<status, form, preview, busy, asked, awaited, deskVars>> /\ Rendered

\* The page's symbol may change under an open dialog, too.
Edit(f) ==
  /\ f # form
  /\ \/ status = "ready" /\ open /\ preview = Nothing
     \/ f = [form EXCEPT !.symbol = f.symbol]
  /\ form' = f
  /\ UNCHANGED <<status, open, preview, busy, asked, awaited, deskVars>> /\ Rendered

\* A limit price that was typed earlier stays in the form, but not in the draft.
Draft == [form EXCEPT !.limitPrice = IF form.type = "limit" THEN @ ELSE Nothing]

requestPreview ==
  /\ status = "ready" /\ open /\ preview = Nothing /\ ~busy
  /\ Cardinality(tokens) < MaxPreviews
  /\ busy' = TRUE /\ asked' = Draft
  /\ UNCHANGED <<status, form, open, preview, awaited, deskVars>> /\ Rendered

issue(order) == [id |-> Cardinality(tokens), order |-> order]

\* The server signs what it made of the draft, and the dialog appears, whatever
\* became of the form.
PreviewArrives ==
  LET token == issue(Normalized(asked))
  IN  /\ asked # Nothing
      /\ tokens' = tokens \union {token} /\ preview' = token
      /\ asked' = Nothing /\ busy' = FALSE
      /\ UNCHANGED <<status, form, open, awaited, lapsed, confirmations, orders, unanswered>> /\ Rendered

PreviewFails ==
  /\ asked # Nothing
  /\ asked' = Nothing /\ busy' = FALSE
  /\ UNCHANGED <<status, form, open, preview, awaited, deskVars>> /\ Rendered

TokenLapses(t) ==
  /\ t \in tokens \ lapsed
  /\ lapsed' = lapsed \union {t}
  /\ UNCHANGED <<formVars, tokens, confirmations, orders, unanswered>>

Back ==
  /\ status = "ready" /\ preview # Nothing /\ ~busy
  /\ preview' = Nothing
  /\ UNCHANGED <<status, form, open, busy, asked, awaited, deskVars>> /\ Rendered

\* The mistake of a button that stays in use.
MayPressAgain == preview # Nothing /\ ~expired

MayConfirm == preview # Nothing /\ ~expired /\ ~busy

\* Each press has a key of its own.
confirm ==
  LET key == Cardinality(confirmations)
  IN  /\ status = "ready" /\ MayConfirm /\ key < MaxPresses
      /\ confirmations' = confirmations \union {[key |-> key, token |-> preview, pc |-> "sent"]}
      /\ busy' = TRUE /\ awaited' = key
      /\ UNCHANGED <<status, form, open, preview, asked, tokens, lapsed, orders, unanswered>> /\ Rendered

Answered(c, answer) == confirmations' = (confirmations \ {c}) \union {[c EXCEPT !.pc = answer]}

\* verify: a token that was signed here, and is not over.
Verified(t) == t \in tokens \ lapsed

\* The intent with its projection; nothing keeps a preview from having two.
createOrderIntent(key, token) ==
  orders' = orders \union {[key |-> key, token |-> token, order |-> token.order]}

\* POST order-intents: the drift gate, the token, then intent, projection, outbox and
\* answer in one transaction.
CreateIntent(c) ==
  /\ c \in confirmations /\ c.pc = "sent" /\ Verified(c.token)
  /\ createOrderIntent(c.key, c.token)
  /\ Answered(c, "created")
  /\ UNCHANGED <<formVars, tokens, lapsed, unanswered>>

RefuseIntent(c) ==
  /\ c \in confirmations /\ c.pc = "sent"
  /\ Answered(c, "refused")
  /\ UNCHANGED <<formVars, tokens, lapsed, orders, unanswered>>

IntentAnswered(c) ==
  /\ c \in confirmations /\ c.key = awaited /\ c.pc \in {"created", "refused"}
  /\ busy' = FALSE /\ awaited' = Nothing
  /\ IF c.pc = "created" THEN preview' = Nothing /\ open' = FALSE ELSE UNCHANGED <<preview, open>>
  /\ UNCHANGED <<status, form, asked, deskVars>> /\ Rendered

\* The connection breaks: the dialog stays, and the server may still handle the request.
AnswerLost(c) ==
  /\ c \in confirmations /\ c.key = awaited
  /\ busy' = FALSE /\ awaited' = Nothing /\ unanswered' = unanswered \union {c.key}
  /\ UNCHANGED <<status, form, open, preview, asked, tokens, lapsed, confirmations, orders>> /\ Rendered

TicketNext ==
  \/ StatusArrives \/ OpenForm \/ CloseForm \/ \E f \in Forms : Edit(f)
  \/ requestPreview \/ PreviewArrives \/ PreviewFails \/ Back \/ confirm
  \/ \E t \in tokens : TokenLapses(t)
  \/ \E c \in confirmations :
       CreateIntent(c) \/ RefuseIntent(c) \/ IntentAnswered(c) \/ AnswerLost(c)

-----------------------------------------------------------------------------
\* One dialog makes one order: a second one of the same preview exists only beside a
\* confirmation whose answer was lost, and nothing is ordered of a preview that the
\* user has left, or has not yet seen.
OneOrderPerDialog ==
  \A t \in tokens :
    LET made == {o \in orders : o.token = t}
        lost == {c \in confirmations : c.token = t /\ c.key \in unanswered}
    IN  /\ Cardinality(made) <= 1 + Cardinality(lost)
        /\ preview # t /\ lost = {} => \A c \in confirmations : c.token = t => c.pc # "sent"
=============================================================================

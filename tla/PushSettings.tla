----------------------------- MODULE PushSettings -----------------------------
(* The settings page of system notifications, open in several tabs of one browser, *)
(* and the server's list of devices (NotificationSettings.tsx, pushSubscription.ts, *)
(* notificationRoutes.ts). A request may be given up on and still be served later.   *)
(* A device is named by its endpoint, and the keys its requests carry are made from  *)
(* the endpoint alone. An answer is kept for 30 days; then the request runs anew.    *)
EXTENDS FiniteSets, Naturals

CONSTANTS Tabs, Endpoints, NoEndpoint,
          MaxOpens,    \* bound: how often the page is opened or reloaded, over all tabs
          MaxClicks,   \* bound: how often enable or revoke is pressed, over all tabs
          Changes,     \* the permissions the user may set outside of the page
          MaxChanges   \* bound: how often, and how often a record runs out

ASSUME SettingsAssumption ==
  /\ NoEndpoint \notin Endpoints /\ Changes \subseteq {"default", "denied", "granted"}
  /\ MaxOpens \in Nat /\ MaxClicks \in Nat /\ MaxChanges \in Nat

VARIABLES
  device,         \* notification.push_subscription: what is recorded of each endpoint
  kept,        \* platform.idempotency_record: the keys whose answer is kept
  permission,  \* Notification.permission of the browser
  browser,     \* the endpoint pushManager.getSubscription() finds
  used,        \* the endpoints the browser was given so far
  sent,        \* the requests that may still reach the server
  tab,         \* the page in each tab
  opens, clicks, changes,
  forgotten,   \* history: the keys whose answer was kept for its 30 days and no longer
  spoiled      \* history: a request was given up on, an unsubscribe failed, or a page left its work

settingsVars == <<device, kept, permission, browser, used, sent, tab, opens, clicks, changes,
                forgotten, spoiled>>

Closed == [view |-> "closed", held |-> NoEndpoint, pc |-> "idle", target |-> NoEndpoint,
           loading |-> FALSE, ran |-> "default"]

SettingsInit ==
  /\ device = [e \in Endpoints |-> "none"] /\ kept = {} /\ forgotten = {} /\ used = {} /\ sent = {}
  /\ permission = "default" /\ browser = NoEndpoint
  /\ tab = [t \in Tabs |-> Closed] /\ spoiled = FALSE
  /\ opens = 0 /\ clicks = 0 /\ changes = 0

Server == <<device, kept, forgotten>>
Browser == <<permission, browser, used>>
Counts == <<opens, clicks, changes>>

\* A page that is drawn again reads the permission anew; when it has changed, the
\* effect runs again (its dependencies are api, permission, registration).
Drawn(page, now) == IF page.ran = now THEN page ELSE [page EXCEPT !.ran = now, !.loading = TRUE]
Draw(t, page) == tab' = [tab EXCEPT ![t] = Drawn(page, permission')]

Open(t) ==
  /\ opens < MaxOpens /\ opens' = opens + 1
  /\ tab' = [tab EXCEPT ![t] = [Closed EXCEPT !.view = "loading", !.loading = TRUE, !.ran = permission]]
  /\ spoiled' = (spoiled \/ tab[t].pc # "idle")
  /\ UNCHANGED <<Server, Browser, sent, clicks, changes>>

\* The effect: the status of the server, and where the permission is granted the
\* subscription of the browser. The two answers are one step, and a load that fails is
\* one that never ends: nothing can be pressed in either view.
Load(t) ==
  /\ tab[t].loading
  /\ UNCHANGED <<Server, Browser, sent, Counts, spoiled>>
  /\ Draw(t, CASE tab[t].ran = "denied"  -> [tab[t] EXCEPT !.view = "denied", !.loading = FALSE]
               [] tab[t].ran = "default" -> [tab[t] EXCEPT !.view = "disabled", !.loading = FALSE]
               [] OTHER -> [tab[t] EXCEPT !.loading = FALSE, !.held = browser,
                              !.view = IF browser = NoEndpoint THEN "disabled" ELSE "enabled"])

Enable(t) ==
  /\ tab[t].view = "disabled" /\ tab[t].pc = "idle"
  /\ clicks < MaxClicks /\ clicks' = clicks + 1
  /\ UNCHANGED <<Server, Browser, sent, opens, changes, spoiled>>
  /\ Draw(t, [tab[t] EXCEPT !.pc = IF tab[t].ran = "granted" THEN "subscribing" ELSE "asking"])

\* requestPermission: a permission that is settled already is not asked for.
PermissionAnswered(t) ==
  /\ tab[t].pc = "asking"
  /\ permission' \in IF permission = "default" THEN {"granted", "denied", "default"} ELSE {permission}
  /\ UNCHANGED <<Server, browser, used, sent, Counts, spoiled>>
  /\ IF permission' = "granted"
     THEN tab' = [tab EXCEPT ![t].pc = "subscribing"]
     ELSE Draw(t, [tab[t] EXCEPT !.pc = "idle", !.view = "denied"])

Request(t, kind, e) == [tab |-> t, kind |-> kind, endpoint |-> e]

\* subscribeBrowserPush: the subscription there is, or a new one.
subscribeBrowserPush(t) ==
  /\ tab[t].pc = "subscribing" /\ permission = "granted"
  /\ \E e \in IF browser = NoEndpoint THEN Endpoints \ used ELSE {browser} :
       /\ browser' = e /\ used' = used \union {e}
       /\ sent' = sent \union {Request(t, "subscribe", e)}
       /\ tab' = [tab EXCEPT ![t].pc = "posting", ![t].target = e]
  /\ UNCHANGED <<Server, permission, Counts, spoiled>>

SubscribeFails(t) ==
  /\ tab[t].pc = "subscribing"
  /\ UNCHANGED <<Server, Browser, sent, Counts, spoiled>>
  /\ Draw(t, [tab[t] EXCEPT !.pc = "idle", !.view = "error"])

Revoke(t) ==
  /\ tab[t].view = "enabled" /\ tab[t].pc = "idle" /\ tab[t].held # NoEndpoint
  /\ clicks < MaxClicks /\ clicks' = clicks + 1
  /\ sent' = sent \union {Request(t, "revoke", tab[t].held)}
  /\ UNCHANGED <<Server, Browser, opens, changes, spoiled>>
  /\ Draw(t, [tab[t] EXCEPT !.pc = "revoking", !.target = tab[t].held])

-----------------------------------------------------------------------------
(* The server: one transaction per request, under the key of the request.      *)
KeyOfKind(m) == m.kind                                            \* a bug, for the checks
Key(m) == <<m.kind, m.endpoint>>
Replays(m) == Key(m) \in kept

upsert(e) == [device EXCEPT ![e] = "active"]
revoke(e) == [device EXCEPT ![e] = IF @ \in {"active", "invalid"} THEN "revoked" ELSE @]

Awaited(t) ==
  IF tab[t].pc = "posting"
  THEN [tab[t] EXCEPT !.pc = "idle", !.held = tab[t].target, !.view = "enabled"]
  ELSE [tab[t] EXCEPT !.pc = "unsubscribing"]

IsAwaited(m) == /\ tab[m.tab].pc = (IF m.kind = "subscribe" THEN "posting" ELSE "revoking")
                /\ tab[m.tab].target = m.endpoint

mutation(m) ==
  /\ m \in sent /\ sent' = sent \ {m}
  /\ kept' = kept \union {Key(m)} /\ forgotten' = forgotten \ {Key(m)}
  /\ device' = IF Replays(m) THEN device
            ELSE IF m.kind = "subscribe" THEN upsert(m.endpoint) ELSE revoke(m.endpoint)
  /\ UNCHANGED <<Browser, Counts, spoiled>>
  /\ \/ IsAwaited(m) /\ Draw(m.tab, Awaited(m.tab))
     \/ UNCHANGED tab                                             \* the answer is lost

GivesUp(t) ==
  /\ tab[t].pc \in {"posting", "revoking"}
  /\ spoiled' = TRUE
  /\ UNCHANGED <<Server, Browser, sent, Counts>>
  /\ Draw(t, IF tab[t].pc = "posting" THEN [tab[t] EXCEPT !.pc = "idle", !.view = "error"]
             ELSE [tab[t] EXCEPT !.pc = "idle"])

\* revokeBrowserPush ends with subscription.unsubscribe(), which finds nothing to do
\* when the browser has dropped the subscription already.
Unsubscribe(t) ==
  /\ tab[t].pc = "unsubscribing"
  /\ browser' = IF browser = tab[t].target THEN NoEndpoint ELSE browser
  /\ UNCHANGED <<Server, permission, used, sent, Counts, spoiled>>
  /\ Draw(t, [tab[t] EXCEPT !.pc = "idle", !.held = NoEndpoint, !.view = "disabled"])

UnsubscribeFails(t) ==
  /\ tab[t].pc = "unsubscribing" /\ spoiled' = TRUE
  /\ UNCHANGED <<Server, Browser, sent, Counts>>
  /\ Draw(t, [tab[t] EXCEPT !.pc = "idle"])

-----------------------------------------------------------------------------
\* The user changes the permission in the browser's own settings: a subscription
\* does not outlive its permission.
ChangePermission(p) ==
  /\ permission' = p /\ p # permission
  /\ changes < MaxChanges /\ changes' = changes + 1
  /\ browser' = IF p = "granted" THEN browser ELSE NoEndpoint
  /\ UNCHANGED <<Server, used, sent, tab, opens, clicks, spoiled>>

\* The push service answers a push 404 or 410 (PushSubscriptionRepository.invalidate),
\* whatever the browser still finds. A revoked row stays revoked with the mark.
invalidate(e) ==
  /\ device[e] = "active"
  /\ device' = [device EXCEPT ![e] = "invalid"]
  /\ UNCHANGED <<kept, forgotten, Browser, sent, tab, Counts, spoiled>>

\* A record past its expiry counts as none.
Forget(key) ==
  /\ changes < MaxChanges /\ changes' = changes + 1
  /\ kept' = kept \ {key} /\ forgotten' = forgotten \union {key}
  /\ UNCHANGED <<device, Browser, sent, tab, opens, clicks, spoiled>>

SettingsNext ==
  \/ \E t \in Tabs :
       \/ Open(t) \/ Load(t)
       \/ Enable(t) \/ PermissionAnswered(t) \/ subscribeBrowserPush(t) \/ SubscribeFails(t)
       \/ Revoke(t) \/ GivesUp(t) \/ Unsubscribe(t) \/ UnsubscribeFails(t)
  \/ \E m \in sent : mutation(m)
  \/ \E p \in Changes : ChangePermission(p)
  \/ \E e \in Endpoints : invalidate(e)
  \/ \E key \in kept : Forget(key)

-----------------------------------------------------------------------------
\* While no request was given up on, no unsubscribe failed and no page was left in the
\* middle of its work, the server knows the subscription of a browser at rest and nobody
\* revoked it: it is active, or the push service has ended it and the browser is still to
\* be told. In whatever order the tabs enable and revoke (enable, revoke), and however
\* long an answer was kept.
DeviceIsKnown ==
  (~spoiled /\ browser # NoEndpoint /\ \A t \in Tabs : tab[t].pc = "idle")
    => device[browser] \in {"active", "invalid"}

\* A device that was revoked or found gone comes back only when the 30 days of its
\* subscription's record are over: until then neither a second tab that subscribes with
\* the endpoint it still finds, nor a request served long after its page gave up on it,
\* reaches the upsert that reactivates (push-subscription-<hash> is one key per endpoint).
GoneUntilForgotten ==
  \A e \in Endpoints :
    (device[e] \in {"revoked", "invalid"} /\ device'[e] \notin {"revoked", "invalid"})
      => <<"subscribe", e>> \in forgotten

=============================================================================

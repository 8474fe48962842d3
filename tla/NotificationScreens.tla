------------------------ MODULE NotificationScreens ------------------------
(***************************************************************************)
(* The notification pages of the portals and the customer's app: the inbox *)
(* with its badge, and the settings, as functions of the rows they fetch.  *)
(* Their calls are actions of Outbox.  All messages fit the inbox's limit. *)
(***************************************************************************)
EXTENDS Outbox

-----------------------------------------------------------------------------
(* The settings page *)

\* The roles whose settings page has a switch for the type.
EVENTS(type) ==
    CASE type \in {"ORDER_PLACED", "DISPATCH_JOB_CREATED"} ->
            {"ADMIN", "STORE_OWNER"}
      [] type \in {"STORE_ACCEPTED_ORDER", "STORE_STARTED_PICKING"} ->
            {"ADMIN", "CUSTOMER"}
      [] type = "ORDER_PACKED" -> {"ADMIN", "CUSTOMER", "STORE_OWNER"}
      [] type = "ASSIGNMENT_OFFERED" -> {"ADMIN", "RIDER"}
      [] type \in {"ASSIGNMENT_REJECTED", "ASSIGNMENT_EXPIRED"} ->
            {"ADMIN", "STORE_OWNER", "RIDER"}
      [] type \in {"RIDER_EN_ROUTE_TO_STORE", "RIDER_AT_STORE"} ->
            {"ADMIN", "STORE_OWNER", "CUSTOMER"}
      [] type = "RIDER_AT_CUSTOMER" -> {"ADMIN", "CUSTOMER", "RIDER"}
      [] OTHER -> {"ADMIN", "CUSTOMER", "STORE_OWNER", "RIDER"}

globalPreference(u) ==
    IF preference[<<u, "*">>] = None THEN [push |-> TRUE, inApp |-> TRUE]
    ELSE preference[<<u, "*">>]

\* A type nobody has set inherits the global switches.
eventPreference(u, type) ==
    IF preference[<<u, type>>] = None THEN globalPreference(u)
    ELSE preference[<<u, type>>]

-----------------------------------------------------------------------------
(* The inbox *)

\* The recipients' rows that are not hidden, and the history rows that have no
\* recipient row yet.
listInbox(u) ==
    {k \in Message :
        IF recipient[<<k, u>>] = None THEN k \in LegacyRows(u)
        ELSE ~recipient[<<k, u>>].hidden}

\* A mutant: the badge goes by the status of the row.
UnreadByStatus(u) ==
    {k \in listInbox(u) : recipient[<<k, u>>] = None
                             \/ recipient[<<k, u>>].status # "READ"}

\* What the badge counts.
Unread(u) ==
    {k \in listInbox(u) : recipient[<<k, u>>] = None
                             \/ ~recipient[<<k, u>>].readAt}

-----------------------------------------------------------------------------
(* Properties *)

\* Whoever is addressed finds a switch for the message, and the setting the page
\* shows is the one the worker obeys at that moment: when it stores a recipient
\* (in the inbox or hidden) and when it picks the devices to push to
\* (NotificationPreferences.tsx, materializeOutboxEvent, deliverRecipient).
SettingsObeyed ==
    /\ \A e \in Event : \A u \in route(e) :
          /\ Role[u] \in EVENTS(EventType[e])
          /\ recipient[<<e, u>>] = None /\ recipient'[<<e, u>>] # None =>
                recipient'[<<e, u>>].hidden = ~eventPreference(u, EventType[e]).inApp
    /\ \A w \in Worker :
          worker[w].step = "deliver" /\ worker'[w].tokens # {} =>
             eventPreference(worker'[w].user, EventType[worker[w].key]).push

\* The badge rises only with a new message: reading one twice, opening it while
\* it is read, or a worker that writes its result over a row the user has just
\* read makes nothing unread again (listInbox, markRead, markOpened).
BadgeFollowsNews ==
    \A u \in User : \A k \in Unread(u)' \ Unread(u) : recipient[<<k, u>>] = None

\* What the inbox lists stays listed, once: a history row also when reading it
\* gives it a recipient row of its own (listInbox, migrateLegacyRow).
InboxStays == \A u \in User : listInbox(u) \subseteq listInbox(u)'

\* The notification pages agree with the server.
PagesFollowServer == [][SettingsObeyed /\ BadgeFollowsNews /\ InboxStays]_vars
=============================================================================

----------------------------- MODULE MCWebhooks -----------------------------
(***************************************************************************)
(* Instance of Webhooks for TLC.                                           *)
(***************************************************************************)
EXTENDS Webhooks

Row(name, retries) ==
  [name |-> name, status |-> "ACTIVE", auth |-> "HMAC_SIGNATURE", secret |-> TRUE,
   retries |-> retries, enabled |-> TRUE, deleted |-> FALSE,
   delivery |-> 0, success |-> 0, failure |-> 0]

\* One webhook of three, which a client has given two attempts.
OneHook == [h \in Hooks |-> IF h = 1 THEN Row("a", 2) ELSE Null]

On(op, n) == [op |-> op, hook |-> 1, n |-> n]
Setting(set) == [op |-> "update_webhook", hook |-> 1, set |-> set]
Creating(hook, row) == [op |-> "create_webhook", hook |-> hook, row |-> row]
Of(op, some) == [op |-> op, hooks |-> some]

\* Deliveries and retries while the retry count changes.
Retrying ==
  {On("manual_trigger", 1), On("retry_delivery", 1), On("retry_delivery", 2),
   On("retry_delivery", 3), Setting([retries |-> 3]), Setting([retries |-> 1])}

\* A webhook is deleted and restored while it is switched and delivers.
Switching ==
  {On("test_webhook", 1), On("delete_webhook", 1), On("restore_webhook", 1),
   On("enable_webhook", 1), On("disable_webhook", 1),
   Setting([status |-> "SUSPENDED", enabled |-> FALSE]), Of("bulk_enable", {1, 2})}

\* Names and secrets: two webhooks and a third want one name.
Naming ==
  {Creating(2, Row("b", 0)), Creating(3, [Row("b", 1) EXCEPT !.auth = "NONE", !.secret = FALSE]),
   Setting([name |-> "b"]), Setting([secret |-> FALSE]),
   [Setting([auth |-> "NONE"]) EXCEPT !.hook = 3],
   [Setting([secret |-> TRUE, auth |-> "HMAC_SIGNATURE"]) EXCEPT !.hook = 3],
   [On("delete_webhook", 2) EXCEPT !.hook = 2], Of("bulk_disable", {2, 3})}

WebhookScenarios == {Retrying, Switching, Naming}
WebhookRequests == UNION WebhookScenarios
=============================================================================

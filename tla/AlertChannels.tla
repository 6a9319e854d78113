--------------------------- MODULE AlertChannels ---------------------------
(* Channels and event toggles of the notification service                  *)
(* (internal/notifications/service.go): what a settings value means and     *)
(* how a payload goes out.  Texts, addresses and tokens are "" or not.      *)
EXTENDS Naturals, FiniteSets

Channels == {"webhook", "telegram"}

(* A channel's settings: webhook [enabled, url], telegram [enabled, token, chat]. *)
defaultSettings ==
  [events |-> {"job_failed", "job_succeeded_with_warnings"},
   webhook |-> [enabled |-> FALSE, url |-> ""], telegram |-> [enabled |-> FALSE, token |-> "", chat |-> ""]]

(* The channels dispatchPayload tries, each whatever the other does. *)
Targets(s) ==
  {c \in Channels : IF c = "webhook" THEN s.webhook.enabled /\ s.webhook.url # ""
                    ELSE s.telegram.enabled /\ s.telegram.token # "" /\ s.telegram.chat # ""}

hasConfiguredNotificationChannel(s) == Targets(s) # {}

(* The channels that get the payload when those in up can be reached. *)
dispatchPayload(s, up) == Targets(s) \cap up

(* A settings value that UpdateSettings accepts. *)
validateSettings(s) ==
  /\ s.webhook.enabled \/ s.webhook.url # "" => s.webhook.url = "https"
  /\ s.telegram.enabled \/ s.telegram.token # "" \/ s.telegram.chat # "" => s.telegram.token # "" /\ s.telegram.chat # ""
=============================================================================

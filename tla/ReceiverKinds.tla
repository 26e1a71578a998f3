---------------------------- MODULE ReceiverKinds ----------------------------
(***************************************************************************)
(* The life of a Receiver of each of the ten kinds, from the resource a    *)
(* user writes to the notifier that sends for it: admission                *)
(* (apis/v2beta2), the internal receiver and its config (pkg/internal),    *)
(* and the settings of the notifier (pkg/notify/notifier).  A resource     *)
(* either passes admission and reaches the controller, or is posted to the *)
(* verify and notification APIs, which validate the internal receiver.     *)
(***************************************************************************)
EXTENDS Absence, Naturals, FiniteSets

CONSTANTS Resources,       \* the Receiver resources
          Configs,         \* the Config resources of the same kind for none
          Options          \* spec.receivers of the NotificationManager

VARIABLES resource, config, options,
          path,            \* "cr" or "api"
          phase,           \* where the receiver is
          kept,            \* the receiver the controller holds, or the request's
          handed,          \* "copy" or "same": what the lookup handed out
          receiver         \* the receiver the notifier is opened for

kindsVars == <<resource, config, options, path, phase, kept, handed, receiver>>

Kinds == {"dingtalk", "email", "slack", "webhook", "wechat", "discord", "pushover", "sms",
          "feishu", "telegram"}

\* A credential: none, a value, a reference, both, neither, a source without a
\* reference, a reference without a key.
Credentials == {"none", "value", "ref", "both", "neither", "noRef", "noKey"}

\* bot is a chat bot, a webhook or an URL and cred its credential; direct says
\* whether users, channels, numbers or chats are named and detail whether they
\* have the right form ("odd": an ill-formed number or key, or an URL beside a
\* service; "missing": a profile without a key, a conversation without chats).
ResourceType ==
    [kind : Kinds, template : {Nil, "own"}, title : {Nil, "own"},
     type : {Nil, "text", "markdown", "html", "post", "interactive", "embed", "other"},
     selector : {Nil, "good", "bad"}, bot : BOOLEAN, cred : Credentials, direct : BOOLEAN,
     detail : {"fine", "odd", "missing"}]

ASSUME KindConstants ==
    /\ Resources \subseteq ResourceType
    /\ \A s \in Resources : s.detail = "missing" => s.kind \in {"dingtalk", "pushover"}
    /\ Nil \notin Kinds \cup {"own", "channel", "global", "default", "text", "markdown", "html", "post",
                          "interactive", "embed", "other"}
-----------------------------------------------------------------------------
(***************************************************************************)
(* Admission.  "panic" is a nil pointer dereferenced on the way.           *)
(***************************************************************************)
validateCredential(c) == c \notin {"neither", "both", "noRef"}
validateSelector(s) == s # "bad"

\* The credentials validateReceiver collects.
AdmittedCredential(s) ==
    (s.kind = "webhook" \/ (s.bot /\ s.kind \in {"dingtalk", "wechat", "feishu", "discord"}))
        => validateCredential(s.cred)

AdmitDingTalk(s) ==
    s.detail # "missing" /\ s.type \in {Nil, "text", "markdown"} /\ validateSelector(s.selector)
AdmitEmail(s) == s.direct /\ s.type \in {Nil, "text", "html"} /\ validateSelector(s.selector)
AdmitSlack(s) == s.direct /\ validateSelector(s.selector)
AdmitWebhook(s) == s.bot /\ s.detail # "odd" /\ validateSelector(s.selector)
AdmitPushover(s) == s.direct /\ s.detail # "missing" /\ validateSelector(s.selector)
AdmitSms(s) == s.direct /\ validateSelector(s.selector)
AdmitFeishu(s) == (s.direct \/ s.bot) /\ validateSelector(s.selector)
AdmitTelegram(s) == s.direct /\ validateSelector(s.selector)
AdmitDiscord(s) == s.bot /\ validateSelector(s.selector)

AdmitWechat(s) ==
    (s.direct \/ s.bot) /\ s.type \in {Nil, "text", "markdown"} /\ validateSelector(s.selector)

AdmitKind(s) ==
    CASE s.kind = "dingtalk" -> AdmitDingTalk(s) [] s.kind = "email" -> AdmitEmail(s)
      [] s.kind = "slack" -> AdmitSlack(s)       [] s.kind = "webhook" -> AdmitWebhook(s)
      [] s.kind = "wechat" -> AdmitWechat(s)     [] s.kind = "discord" -> AdmitDiscord(s)
      [] s.kind = "pushover" -> AdmitPushover(s) [] s.kind = "sms" -> AdmitSms(s)
      [] s.kind = "feishu" -> AdmitFeishu(s)     [] s.kind = "telegram" -> AdmitTelegram(s)

\* The error for a Discord type quotes the Email type, the one for a Telegram
\* selector the Slack selector.
AdmissionPanics(s) ==
    \/ s.kind = "discord" /\ s.bot /\ s.type \notin {Nil, "embed"}
    \/ s.kind = "telegram" /\ s.selector = "bad"

validateReceiver(s) ==
    IF AdmissionPanics(s) THEN "panic"
    ELSE IF AdmitKind(s) /\ AdmittedCredential(s) THEN "ok" ELSE "invalid"

\* provider is the default SMS provider: set up, missing, or Huawei and missing.
SmsConfigAdmitted(c) == c.provider = "present"

validateConfig(k, c) == validateCredential(c.cred) /\ (k = "sms" => SmsConfigAdmitted(c))
-----------------------------------------------------------------------------
(***************************************************************************)
(* The internal receiver and config.                                       *)
(***************************************************************************)
Common(s) == [kind |-> s.kind, template |-> s.template, title |-> Nil, type |-> Nil,
              bot |-> FALSE, cred |-> "none", direct |-> s.direct, detail |-> s.detail, config |-> Nil]

Typed(s) == [Common(s) EXCEPT !.type = s.type]
WithBot(s, r) ==
    [r EXCEPT !.bot = s.bot, !.cred = IF s.bot \/ s.kind = "webhook" THEN s.cred ELSE "none"]

NewDingTalk(s) == WithBot(s, [Typed(s) EXCEPT !.title = s.title])
NewEmail(s) == [Typed(s) EXCEPT !.title = s.title]
NewSlack(s) == Common(s)
NewWebhook(s) == WithBot(s, Common(s))
NewWechat(s) == WithBot(s, Typed(s))
NewPushover(s) == [Common(s) EXCEPT !.title = s.title]
NewSms(s) == Common(s)
NewFeishu(s) == WithBot(s, Typed(s))
\* Discord and Telegram dereference the template.
NewDiscord(s) == IF s.template = Nil THEN Nil ELSE WithBot(s, Typed(s))
NewTelegram(s) == IF s.template = Nil THEN Nil ELSE Common(s)

NewReceiver(s) ==
    CASE s.kind = "dingtalk" -> NewDingTalk(s) [] s.kind = "email" -> NewEmail(s)
      [] s.kind = "slack" -> NewSlack(s)       [] s.kind = "webhook" -> NewWebhook(s)
      [] s.kind = "wechat" -> NewWechat(s)     [] s.kind = "discord" -> NewDiscord(s)
      [] s.kind = "pushover" -> NewPushover(s) [] s.kind = "sms" -> NewSms(s)
      [] s.kind = "feishu" -> NewFeishu(s)     [] s.kind = "telegram" -> NewTelegram(s)

ValidateCredential(c) == c \in {"value", "ref"}

\* Validate of each kind's config; Discord and webhook have none.
DingTalkConfigValid(c) == c.cred = "none" \/ ValidateCredential(c.cred)
SmsConfigValid(c) == c.provider # "absent" /\ (c.cred = "none" \/ ValidateCredential(c.cred))
WechatConfigValid(c) == ValidateCredential(c.cred)
FeishuConfigValid(c) == ValidateCredential(c.cred)

ConfigValid(k, c) ==
    CASE k = "email" -> TRUE
      [] k = "dingtalk" -> DingTalkConfigValid(c) [] k = "sms" -> SmsConfigValid(c)
      [] k = "wechat" -> WechatConfigValid(c)     [] k = "feishu" -> FeishuConfigValid(c)
      [] k \in {"slack", "telegram", "pushover"} -> ValidateCredential(c.cred)

\* getMatchedConfig with the one config there is.
Matched(r, c) ==
    IF c = Nil \/ r.kind \in {"webhook", "discord"} THEN r
    ELSE IF ConfigValid(r.kind, c) THEN [r EXCEPT !.config = c] ELSE r

DingTalkValid(r) ==
    /\ r.type \in {Nil, "text", "markdown"} /\ (r.bot \/ r.direct)
    /\ r.bot => ValidateCredential(r.cred)
    /\ r.direct => r.config # Nil
EmailValid(r) == r.type \in {Nil, "text", "html"} /\ r.direct /\ r.config # Nil
SlackValid(r) == r.direct /\ r.config # Nil
WebhookValid(r) == r.bot
WechatValid(r) ==
    /\ (r.direct \/ r.bot) /\ r.type \in {Nil, "text", "markdown"}
    /\ r.direct => r.config # Nil
DiscordValid(r) == r.type \in {Nil, "embed"}
PushoverValid(r) == r.direct /\ r.detail = "fine" /\ r.config # Nil
SmsValid(r) == r.direct /\ r.detail = "fine" /\ r.config # Nil
FeishuValid(r) ==
    /\ (r.direct \/ r.bot) /\ r.type \in {Nil, "text", "post", "interactive"}
    /\ r.direct => r.config # Nil
TelegramValid(r) == r.direct /\ r.config # Nil

Validate(r) ==
    CASE r.kind = "dingtalk" -> DingTalkValid(r) [] r.kind = "email" -> EmailValid(r)
      [] r.kind = "slack" -> SlackValid(r)       [] r.kind = "webhook" -> WebhookValid(r)
      [] r.kind = "wechat" -> WechatValid(r)     [] r.kind = "discord" -> DiscordValid(r)
      [] r.kind = "pushover" -> PushoverValid(r) [] r.kind = "sms" -> SmsValid(r)
      [] r.kind = "feishu" -> FeishuValid(r)     [] r.kind = "telegram" -> TelegramValid(r)
-----------------------------------------------------------------------------
(***************************************************************************)
(* The notifiers: what New makes of the receiver's template settings and   *)
(* the options.  A template is the receiver's own, the channel's, the      *)
(* global one, or the default for a message type.                          *)
(***************************************************************************)
\* The name the options give, or the default.
TemplateName(o, dflt) ==
    IF o.template # Nil THEN "channel" ELSE IF o.global # Nil THEN "global" ELSE dflt

Plain(r, o) == [r EXCEPT !.template = IF @ # Nil THEN @ ELSE TemplateName(o, "default")]

\* The kinds with message types: the type first, then the default for it.
TypedSettings(r, o, dflt, types) ==
    LET t == IF r.type # Nil THEN r.type ELSE IF o.type # Nil THEN o.type ELSE dflt
    IN [r EXCEPT !.type = t,
                 !.template = IF @ # Nil THEN @ ELSE TemplateName(o, IF t \in types THEN t ELSE Nil)]

Titled(r, o) == [r EXCEPT !.title = IF @ # Nil THEN @ ELSE IF o.title # Nil THEN "channel" ELSE "default"]

NewDingTalkNotifier(r, o) ==
    LET n == TypedSettings(r, o, "text", {"text", "markdown"})
    IN IF n.type = "markdown" THEN Titled(n, o) ELSE n
NewEmailNotifier(r, o) == Titled(TypedSettings(r, o, "html", {"text", "html"}), o)
NewWechatNotifier(r, o) == TypedSettings(r, o, "text", {"text", "markdown"})
NewFeishuNotifier(r, o) == TypedSettings(r, o, "interactive", {"text", "post", "interactive"})
NewDiscordNotifier(r, o) == Plain(r, o)
NewSlackNotifier(r, o) == Plain(r, o)
NewTelegramNotifier(r, o) == Plain(r, o)
NewSmsNotifier(r, o) == Plain(r, o)
NewWebhookNotifier(r, o) == Plain(r, o)
NewPushoverNotifier(r, o) == Titled(Plain(r, o), o)

Settings(r, o) ==
    CASE r.kind = "dingtalk" -> NewDingTalkNotifier(r, o) [] r.kind = "email" -> NewEmailNotifier(r, o)
      [] r.kind = "slack" -> NewSlackNotifier(r, o)       [] r.kind = "webhook" -> NewWebhookNotifier(r, o)
      [] r.kind = "wechat" -> NewWechatNotifier(r, o)     [] r.kind = "discord" -> NewDiscordNotifier(r, o)
      [] r.kind = "pushover" -> NewPushoverNotifier(r, o) [] r.kind = "sms" -> NewSmsNotifier(r, o)
      [] r.kind = "feishu" -> NewFeishuNotifier(r, o)     [] r.kind = "telegram" -> NewTelegramNotifier(r, o)

\* New refuses a receiver without the config it needs.
Refused(r) ==
    \/ r.kind \in {"email", "slack", "telegram", "sms", "pushover"} /\ r.config = Nil
    \/ r.kind = "wechat" /\ r.config = Nil /\ ~r.bot

\* Mutant: the lookup hands out the controller's own receiver.
HandOutSame(r) == [receiver |-> r, handed |-> "same"]

\* The lookups by namespace, name, selector and tenant hand out copies.
HandOut(r) ==
    [receiver |-> [kind |-> r.kind, template |-> r.template, title |-> r.title, type |-> r.type,
                   bot |-> r.bot, cred |-> r.cred, direct |-> r.direct, detail |-> r.detail,
                   config |-> r.config],
     handed |-> "copy"]

\* The template engine an email body is rendered with.
Renderer(type) == IF type # "text" THEN "text" ELSE "html"

\* The message types a sender composes.
Composes(k, t) ==
    CASE k \in {"dingtalk", "wechat"} -> t \in {"text", "markdown"}
      [] k = "feishu" -> t \in {"text", "post", "interactive"}
      [] OTHER -> TRUE

\* spec.receivers names, for a channel, one of the types it documents.
ASSUME OptionConstants ==
    \A o \in Options, s \in Resources : o.type # Nil =>
        Composes(s.kind, o.type) /\ (s.kind = "email" => o.type \in {"text", "html"})
-----------------------------------------------------------------------------
KindsInit ==
    /\ resource \in Resources /\ config \in Configs /\ options \in Options /\ path \in {"cr", "api"}
    /\ phase = "written" /\ kept = Nil /\ receiver = Nil /\ handed = "copy"

Same == UNCHANGED <<resource, config, path>>

\* The admission webhooks; the API has none.
AdmitResource ==
    /\ phase = "written"
    /\ phase' = IF path = "api"
                \/ (validateReceiver(resource) = "ok"
                      /\ (config = Nil \/ validateConfig(resource.kind, config)))
             THEN "admitted" ELSE "rejected"
    /\ UNCHANGED <<options, kept, handed, receiver>> /\ Same

\* receiverChanged, or GenerateReceivers.
Build ==
    /\ phase = "admitted"
    /\ kept' = NewReceiver(resource)
    /\ phase' = IF kept' = Nil THEN "unbuilt" ELSE "stored"
    /\ UNCHANGED <<options, handed, receiver>> /\ Same

\* A lookup of the controller for an alert, which validates nothing.
Lookup ==
    /\ phase = "stored" /\ path = "cr"
    /\ LET h == HandOut(kept) IN receiver' = Matched(h.receiver, config) /\ handed' = h.handed
    /\ phase' = "selected"
    /\ UNCHANGED <<options, kept>> /\ Same

\* GenerateReceivers; the error for a profile without a key quotes the key.
Generate ==
    /\ phase = "stored" /\ path = "api"
    /\ receiver' = Matched(kept, config) /\ handed' = "same"
    /\ phase' = IF kept.kind = "pushover" /\ kept.direct /\ kept.detail = "missing" THEN "panicked"
             ELSE IF Validate(receiver') THEN "selected" ELSE "rejected"
    /\ UNCHANGED <<options, kept>> /\ Same

\* New writes the settings into the receiver it was given.  It fails without a
\* config, and when the receiver's own template text does not parse.
Open ==
    /\ phase = "selected"
    /\ \/ /\ ~Refused(receiver) /\ phase' = "open"
          /\ receiver' = Settings(receiver, options)
          /\ kept' = IF handed = "same" THEN receiver' ELSE kept
       \/ phase' = "ignored" /\ UNCHANGED <<kept, receiver>>
    /\ UNCHANGED <<options, handed>> /\ Same

\* The next alert finds other options in the NotificationManager.
Reconfigure ==
    /\ phase = "open" /\ path = "cr" /\ options' \in Options
    /\ phase' = "stored" /\ receiver' = Nil
    /\ UNCHANGED <<kept, handed>> /\ Same

KindsNext == AdmitResource \/ Build \/ Lookup \/ Generate \/ Open \/ Reconfigure

KindsSpec == KindsInit /\ [][KindsNext]_kindsVars
-----------------------------------------------------------------------------
\* What admission does not look at and Validate does: the forms of a Feishu
\* type, a phone number and a user key, a DingTalk receiver without any
\* recipient, and the key of a DingTalk chat bot's secret.
OnlyValidateSees(r) ==
    \/ r.kind = "feishu" /\ r.type \in {"markdown", "html", "embed", "other"}
    \/ r.kind \in {"pushover", "sms"} /\ r.detail = "odd"
    \/ r.kind = "dingtalk" /\ ~r.direct /\ ~r.bot
    \/ r.kind = "dingtalk" /\ r.bot /\ r.cred \in {"none", "noKey"}

\* A receiver that admission let in is, once a lookup found its config, one
\* that the verify API accepts too (GenerateReceivers calls Validate), apart
\* from the five forms above.
AdmittedIsValid ==
    (path = "cr" /\ phase \in {"selected", "open"} /\ ~OnlyValidateSees(receiver)
       /\ (receiver.config # Nil \/ receiver.kind \in {"webhook", "discord"} \/ ~receiver.direct))
    => Validate(receiver)

\* A notifier sends with what the receiver asks for; failing that, with what
\* the options of its channel say now, whatever they said when a notifier was
\* opened for the same receiver before; failing that, with the global template
\* or the default one of its message type.
SettingsArePreferred ==
    phase = "open" =>
        /\ resource.template # Nil => receiver.template = "own"
        /\ resource.template = Nil =>
              /\ options.template # Nil => receiver.template = "channel"
              /\ options.template = Nil /\ options.global # Nil => receiver.template = "global"
        /\ receiver.kind \in {"dingtalk", "email", "wechat", "feishu"} =>
              /\ resource.type # Nil => receiver.type = resource.type
              /\ resource.type = Nil /\ options.type # Nil => receiver.type = options.type
              /\ receiver.template \in {"text", "markdown", "html", "post", "interactive"} =>
                    receiver.template = receiver.type

\* What the verify API accepts has a message type that its sender composes and
\* a template to render.
VerifiedComposes ==
    (phase = "open" /\ path = "api") => Composes(receiver.kind, receiver.type) /\ receiver.template # Nil

\* "The name of the template to generate notification. If the global template
\* is not set, it will use default.": a receiver may leave its template out.
TemplateIsOptional == phase # "unbuilt"

\* "`tmplType` - The type of the email content, `html` or `text`": an HTML body
\* is rendered as HTML.
EmailRenderedByType ==
    (phase = "open" /\ receiver.kind = "email") => Renderer(receiver.type) = receiver.type

\* What admission accepts is valid, the five forms that only Validate looks at apart;
\* what the verify API accepts has a message the notifier composes and a template; and
\* the settings are the ones that take precedence now.
AcceptedIsUsable == AdmittedIsValid /\ VerifiedComposes /\ SettingsArePreferred
=============================================================================

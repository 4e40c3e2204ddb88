---------------------------- MODULE HostSession ----------------------------
(* The session a desktop host shares: bind address, port, room and token, and  *)
(* the flags that tell how far handing its link over has come. The operators   *)
(* of host_session_coordinator.cpp, which every change of the session goes     *)
(* through, and the edit form's of desktop_edit_session_presenter.cpp.         *)
EXTENDS Naturals

CONSTANTS Names,        \* non-empty room names and tokens, without blanks around them
          Ports,        \* port numbers, in 1..65535
          DefaultPort,  \* rules.defaultPort
          Binds,        \* bind addresses
          DefaultBind   \* rules.defaultBindAddress

ASSUME SessionAssumption == DefaultPort \in Ports /\ DefaultBind \in Binds /\ Ports \cap {"none", "bad"} = {} /\ "" \notin Names \cup Binds

Flags == {"viewerUrlCopied", "shareBundleExported", "shareWizardOpened", "handoffStarted", "handoffDelivered"}

\* A text as it is typed: a name, or nothing, and whether blanks surround it.
Texts == [name : Names \cup {""}, padded : BOOLEAN]
Text(n) == [name |-> n, padded |-> FALSE]
Empty == Text("")
Trim(t) == [t EXCEPT !.padded = FALSE]

Configs == [bind : Binds, port : Ports, room : Texts, token : Texts]
Sessions == [config : Configs, flags : SUBSET Flags]

\* What a form or a message asks for: any text for the address, any number
\* or no number ("bad") for the port; "none" is a port that is absent or 0.
PortTexts == Ports \cup {"none", "bad"}
Drafts == [bind : Binds \cup {""}, port : PortTexts, room : Texts, token : Texts]

KeepPort(c) ==                         \* seeded fault: the port is taken as it comes
  [c EXCEPT !.bind = IF @ = "" THEN DefaultBind ELSE @]
NormalizeConfig(c) ==
  [c EXCEPT !.bind = IF @ = "" THEN DefaultBind ELSE @,
            !.port = IF @ \in Ports THEN @ ELSE DefaultPort]

\* resetRequested is TRUE in every call: a session that changed, or got new
\* credentials, has not been handed to anyone yet.
ResetIfGenerated(prior, config, generated) ==    \* seeded fault: a changed value resets nothing
  [config |-> config, flags |-> IF generated THEN {} ELSE prior.flags]
BuildMutationResult(prior, config, generated) ==
  [config |-> config,
   flags |-> IF config # prior.config \/ generated THEN {} ELSE prior.flags]

ApplyHostSessionConfig(s, room, token, bind, port) ==
  BuildMutationResult(s, NormalizeConfig([bind |-> bind, port |-> port, room |-> room, token |-> token]), FALSE)

\* room and token are the names MakeRandomAlnum draws.
EnsureHostSessionCredentials(s, room, token) ==
  BuildMutationResult(s,
    [s.config EXCEPT !.room = IF @ = Empty THEN Text(room) ELSE @,
                     !.token = IF @ = Empty THEN Text(token) ELSE @],
    Empty \in {s.config.room, s.config.token})

GenerateHostSessionCredentials(s, room, token) ==
  BuildMutationResult(s, [s.config EXCEPT !.room = Text(room), !.token = Text(token)], TRUE)

-----------------------------------------------------------------------------
(* The edit form. *)

BuildDesktopEditSessionDraft(s) == s.config

TryParsePort(p) == p # "bad"

DraftConfig(d) ==
  NormalizeConfig([bind |-> d.bind, room |-> Trim(d.room), token |-> Trim(d.token),
                   port |-> IF TryParsePort(d.port) THEN d.port ELSE "none"])

ApplyDesktopEditSessionDraft(s, d) ==
  LET changed == DraftConfig(d) # s.config \/ ~TryParsePort(d.port)
  IN  [config |-> DraftConfig(d), flags |-> IF changed THEN {} ELSE s.flags]

\* The template combo: a fixed room, a demo room, or a generated one.
BuildTemplateState(s, template, room, token) ==
  IF template = "QuickShare"
  THEN GenerateHostSessionCredentials(s, room, token)
  ELSE ApplyHostSessionConfig(s, Text(room), Text(token), s.config.bind, s.config.port)

ApplyDesktopSessionTemplate(s, template, room, token) ==
  BuildDesktopEditSessionDraft(BuildTemplateState(s, template, room, token))

BuildDesktopEditSessionViewModel(s, d, serverRunning) ==
  LET dirty == DraftConfig(d) # s.config \/ ~TryParsePort(d.port)
      pending == serverRunning /\ dirty
  IN  [draft |-> DraftConfig(d), portValid |-> TryParsePort(d.port), dirty |-> dirty, pendingApply |-> pending,
       restartEnabled |-> serverRunning \/ dirty,
       serviceOnlyEnabled |-> ~pending,
       startAndOpenHostEnabled |-> ~pending]
=============================================================================

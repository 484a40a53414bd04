---------------------------- MODULE SettingsForms ----------------------------
(***************************************************************************)
(* The one row of the settings and the pages on which admins change it:    *)
(* the form of the branding with the options of a dropdown, the switches   *)
(* of the general page, and the handoff and its secret.  A page reads the  *)
(* row once, when it opens, and then shows what was typed and sent.        *)
(***************************************************************************)
EXTENDS Scenario, Naturals, Sequences, SequencesExt, FiniteSets

CONSTANTS
  Admins,      \* admins who may have a settings page open
  Second,      \* those who have one only in a story of two
  Labels,      \* what is typed as the label of an option, "" included
  Pixels,      \* colours of an image, as triples of channels
  MaxOptions,  \* bound: options of the dropdown
  MaxEdits,    \* bound: keystrokes and deletions
  MaxSaves     \* bound: changes sent

ASSUME FormsAssumption == Second \subseteq Admins /\ {"", "bug"} \subseteq Labels /\ MaxOptions \in Nat /\ MaxEdits \in Nat /\ MaxSaves \in Nat

VARIABLES
  config,  \* AppConfig
  desk,    \* the page of each admin
  patches, \* its calls on their way, in order
  saves,
  edits

formsVars == <<config, desk, patches, saves, edits>>

Switches == {"maintenance", "survey", "sso", "secret"}
Named == {"", "ours", "yours"}

\* slugify, on labels that are their own key.
Slug(label) == label
Option(key, label) == [key |-> key, label |-> label]
Keys(options) == {options[i].key : i \in DOMAIN options}

\* The options that have both, in order; a function, as SelectSeq is opaque to the provers.
Full(o) == o.key # "" /\ o.label # ""
Kept(options) ==
  LET kept[n \in 0..Len(options)] == IF n = 0 THEN <<>> ELSE IF Full(options[n]) THEN Append(kept[n - 1], options[n]) ELSE kept[n - 1]
  IN kept[Len(options)]

-----------------------------------------------------------------------------
(***************************************************************************)
(* Colours suggested from an image: channels are rounded to multiples of   *)
(* 32, and written with two digits each, or more where they need more.     *)
(***************************************************************************)
Bucket(channel) == ((channel + 16) \div 32) * 32
Bright(c) == (c[1] + c[2] + c[3]) \div 3
Spread(c) == LET d(i, j) == IF c[i] >= c[j] THEN c[i] - c[j] ELSE c[j] - c[i]
             IN {d(1, 2), d(2, 3), d(1, 3)}
Colourful(c) == Bright(c) \in 25..230 /\ \E d \in Spread(c) : d >= 20
Suggested == {c \in {<<Bucket(p[1]), Bucket(p[2]), Bucket(p[3])>> : p \in Pixels} : Colourful(c)}

\* The pattern of the settings' schema: six digits.
Plain == <<0, 96, 224>>
IsHex(c) == \A i \in 1..3 : c[i] < 256

-----------------------------------------------------------------------------
Kind(a) ==
  CASE "switches" \in story \/ ("identity" \in story /\ a \in Second) -> "general"
    [] "handoff" \in story -> "sso"
    [] OTHER               -> "branding"
Busy(a) == \E i \in DOMAIN patches : patches[i].by = a
Here(a) == "forms" \in story /\ (a \in Second => "two" \in story)

\* gone: history, the keys an admin gave up on the page; odd: history, the switches
\* that have a reason to show something else.
Page == [open |-> FALSE, loaded |-> FALSE, options |-> <<>>, locked |-> {}, gone |-> {}, removing |-> 0, name |-> "", logo |-> "ours", file |-> FALSE,
         colour |-> Plain, shown |-> [s \in Switches |-> FALSE], busy |-> FALSE, toggling |-> FALSE, asking |-> "none", odd |-> {}]

Patch(a, op) == [by |-> a, op |-> op, step |-> "sent", options |-> <<>>, locked |-> {}, gone |-> {}, name |-> "", logo |-> "ours", colour |-> Plain,
                switch |-> "none", value |-> FALSE, shown |-> [s \in Switches |-> FALSE]]

FormsInit ==
  /\ config = [options |-> <<Option("bug", "bug")>>, name |-> "ours", logo |-> "ours", colour |-> Plain, on |-> [s \in Switches |-> FALSE]]
  /\ desk = [a \in Admins |-> Page]
  /\ patches = [i \in 1..0 |-> {}] /\ saves = 0 /\ edits = 0

Sends(call) == saves < MaxSaves /\ saves' = saves + 1 /\ patches' = Append(patches, call)
Types == edits < MaxEdits /\ edits' = edits + 1
Shows(a, page) == desk' = [desk EXCEPT ![a] = page]

-----------------------------------------------------------------------------
(***************************************************************************)
(* The API: reading the row, and writing the fields a call carries.        *)
(***************************************************************************)
OpenSettings(a) ==
  /\ Here(a) /\ ~desk[a].loaded /\ ~Busy(a)
  /\ Shows(a, [Page EXCEPT !.open = TRUE])
  /\ patches' = Append(patches, Patch(a, "load"))
  /\ UNCHANGED <<config, saves, edits>>

ReadConfig(i) ==
  /\ patches[i].op = "load" /\ patches[i].step = "sent"
  /\ patches' = [patches EXCEPT ![i].step = "answered", ![i].options = config.options, ![i].name = config.name, ![i].logo = config.logo,
                                ![i].colour = config.colour, ![i].shown = config.on]
  /\ UNCHANGED <<config, desk, saves, edits>>

\* A mutant: any colour is taken.
ValidNamed(c) == c.op = "brand" => c.name # ""

\* The schema of the settings.
Valid(c) == c.op = "brand" => c.name # "" /\ IsHex(c.colour)

Written(c) ==
  CASE c.op = "brand"    -> [config EXCEPT !.options = Kept(c.options), !.name = c.name, !.colour = c.colour]
    [] c.op = "identity" -> [config EXCEPT !.name = c.name, !.logo = c.logo]
    [] c.op = "logo"     -> [config EXCEPT !.logo = c.logo]
    [] c.op = "switch"   -> [config EXCEPT !.on[c.switch] = c.value]

\* Another page that shows the switch, or one that sends it again, has a reason to be wrong.
Overtaken(i) ==
  LET c == patches[i]
  IN [a \in Admins |-> IF c.op = "switch" /\ (a # c.by \/ \E j \in DOMAIN patches \ {i} : patches[j].by = a /\ patches[j].switch = c.switch)
                       THEN [desk[a] EXCEPT !.odd = @ \union {c.switch}] ELSE desk[a]]

WriteConfig(i) ==
  LET c == patches[i]
  IN /\ c.op # "load" /\ c.step = "sent" /\ Valid(c)
     /\ config' = Written(c)
     /\ desk' = Overtaken(i)
     /\ patches' = [patches EXCEPT ![i].step = "answered"]
     /\ UNCHANGED <<saves, edits>>

RefuseConfig(i) ==
  /\ patches[i].step = "sent" /\ ("fault" \in story \/ ~Valid(patches[i]))
  /\ patches' = [patches EXCEPT ![i].step = "refused"]
  /\ UNCHANGED <<config, desk, saves, edits>>

-----------------------------------------------------------------------------
(***************************************************************************)
(* The branding's form.                                                    *)
(***************************************************************************)
OnGeneral(a) == Kind(a) = "general" /\ desk[a].loaded
OnForm(a) == desk[a].open /\ Kind(a) = "branding" /\ desk[a].removing = 0
Locked(a, n) == desk[a].options[n].key \in desk[a].locked

\* A mutant: the key follows the label whether or not it is stored.
TypeLabelAlways(a, n) ==
  LET p == desk[a]
  IN /\ OnForm(a) /\ Types
     /\ \E label \in Labels : Shows(a, [p EXCEPT !.options[n] = Option(Slug(label), label)])
     /\ UNCHANGED <<config, patches, saves>>

\* A new option's key follows its label, a stored one is left alone.
TypeLabel(a, n) ==
  LET p == desk[a]
  IN /\ OnForm(a) /\ Types
     /\ \E label \in Labels :
          IF Locked(a, n) THEN Shows(a, [p EXCEPT !.options[n].label = label])
                          ELSE Shows(a, [p EXCEPT !.options[n] = Option(Slug(label), label), !.gone = IF p.busy THEN @ \union {p.options[n].key} ELSE @])
     /\ UNCHANGED <<config, patches, saves>>

AddOption(a) ==
  /\ OnForm(a) /\ Types /\ "options" \in story /\ Len(desk[a].options) < MaxOptions
  /\ Shows(a, [desk[a] EXCEPT !.options = Append(@, Option("", ""))])
  /\ UNCHANGED <<config, patches, saves>>

\* The option may have gone meanwhile, with the form the settings replaced.
Drops(a, n) ==
  IF n \in DOMAIN desk[a].options THEN [desk[a] EXCEPT !.options = RemoveAt(@, n), !.gone = @ \union {desk[a].options[n].key}, !.removing = 0]
  ELSE [desk[a] EXCEPT !.removing = 0]

\* What tickets use is removed on a second press, once the page knows of the tickets.
PressDelete(a, n) ==
  /\ OnForm(a) /\ Types
  /\ \/ Shows(a, Drops(a, n))
     \/ Locked(a, n) /\ Shows(a, [desk[a] EXCEPT !.removing = n])
  /\ UNCHANGED <<config, patches, saves>>

ConfirmDelete(a) ==
  /\ desk[a].removing # 0
  /\ Shows(a, Drops(a, desk[a].removing)) \/ Shows(a, [desk[a] EXCEPT !.removing = 0])
  /\ UNCHANGED <<config, patches, saves, edits>>

TypeName(a) ==
  /\ "identity" \in story /\ (OnGeneral(a) \/ OnForm(a)) /\ Types
  /\ \E name \in Named : Shows(a, [desk[a] EXCEPT !.name = name])
  /\ UNCHANGED <<config, patches, saves>>

\* Removing the logo is not sent by the branding's form, which has no field for it.
PickLogo(a) ==
  /\ "identity" \in story /\ (OnGeneral(a) \/ OnForm(a)) /\ Types
  /\ \E logo \in Named : Shows(a, [desk[a] EXCEPT !.logo = logo, !.file = logo # "" /\ Kind(a) = "branding"])
  /\ UNCHANGED <<config, patches, saves>>

ApplyColour(a) ==
  /\ "colour" \in story /\ OnForm(a) /\ Types
  /\ \E c \in Suggested : Shows(a, [desk[a] EXCEPT !.colour = c])
  /\ UNCHANGED <<config, patches, saves>>

Blanked(options) == {options[i].key : i \in {j \in DOMAIN options : options[j].label = ""}}

\* A picture that was chosen is uploaded first.
BrandCall(a) ==
  LET p == desk[a]
  IN [Patch(a, IF p.file THEN "logo" ELSE "brand") EXCEPT !.logo = p.logo, !.options = p.options, !.locked = p.locked, !.gone = p.gone \union Blanked(p.options), !.name = p.name, !.colour = p.colour]

SaveBranding(a) ==
  /\ OnForm(a) /\ ~desk[a].busy
  /\ Sends(BrandCall(a))
  /\ Shows(a, [desk[a] EXCEPT !.busy = TRUE, !.file = FALSE])
  /\ UNCHANGED <<config, edits>>

-----------------------------------------------------------------------------
(***************************************************************************)
(* The general page.                                                       *)
(***************************************************************************)
SaveIdentity(a) ==
  /\ OnGeneral(a) /\ "identity" \in story /\ ~desk[a].busy
  /\ Sends([Patch(a, "identity") EXCEPT !.name = desk[a].name, !.logo = desk[a].logo])
  /\ Shows(a, [desk[a] EXCEPT !.busy = TRUE])
  /\ UNCHANGED <<config, edits>>

\* patchFlag: a second switch is shown as thrown, but not sent, while one is on its way.
PatchFlag(a, p, s, value) ==
  IF p.toggling THEN Shows(a, [p EXCEPT !.odd = @ \union {s}, !.shown[s] = value]) /\ UNCHANGED <<patches, saves>>
  ELSE /\ Sends([Patch(a, "switch") EXCEPT !.switch = s, !.value = value])
       /\ Shows(a, [p EXCEPT !.shown[s] = value, !.toggling = TRUE])

\* Maintenance overrides the switches below it.
ThrowFlag(a) ==
  /\ OnGeneral(a) /\ "switches" \in story /\ desk[a].asking = "none" /\ ~desk[a].shown["maintenance"]
  /\ PatchFlag(a, desk[a], "survey", ~desk[a].shown["survey"])
  /\ UNCHANGED <<config, edits>>

AskMaintenance(a) ==
  /\ OnGeneral(a) /\ "switches" \in story /\ desk[a].asking = "none"
  /\ Shows(a, [desk[a] EXCEPT !.asking = IF desk[a].shown["maintenance"] THEN "off" ELSE "on"])
  /\ UNCHANGED <<config, patches, saves, edits>>

ConfirmMaintenance(a) ==
  LET p == [desk[a] EXCEPT !.asking = "none"]
  IN /\ desk[a].asking # "none"
     /\ \/ PatchFlag(a, p, "maintenance", desk[a].asking = "on")
        \/ Shows(a, p) /\ UNCHANGED <<patches, saves>>
     /\ UNCHANGED <<config, edits>>

-----------------------------------------------------------------------------
(***************************************************************************)
(* The handoff's page.                                                     *)
(***************************************************************************)
OnHandoff(a) == Kind(a) = "sso" /\ desk[a].loaded

\* Enable, set the secret, clear it: each answer shows the settings the press saw.
PressHandoff(a) ==
  /\ OnHandoff(a)
  /\ \E s \in {"sso", "secret"}, value \in BOOLEAN :
       /\ s = "sso" => value = ~desk[a].shown["sso"]
       /\ s = "secret" /\ ~value => desk[a].shown["secret"]
       /\ Sends([Patch(a, "switch") EXCEPT !.switch = s, !.value = value, !.shown = desk[a].shown])
  /\ UNCHANGED <<config, desk, edits>>

\* A mutant: the secret that was cleared is shown as before.
ShowsSavedSet(c) == [c.shown EXCEPT !["sso"] = IF c.switch = "sso" THEN c.value ELSE @, !["secret"] = @ \/ (c.switch = "secret" /\ c.value)]

ShowsSaved(c) == [c.shown EXCEPT ![c.switch] = c.value]

-----------------------------------------------------------------------------
(***************************************************************************)
(* Answers.                                                                *)
(***************************************************************************)
\* The settings replace what was typed before they arrived, sent or not.
Loaded(p, c) ==
  [p EXCEPT !.loaded = TRUE, !.options = c.options, !.locked = Keys(c.options), !.gone = IF p.busy THEN @ \union Keys(p.options) ELSE {}, !.name = c.name, !.logo = c.logo,
            !.colour = c.colour, !.shown = c.shown]

\* The keys that were sent are stored, so they are locked.
Branded(p, c) == [p EXCEPT !.locked = Keys(c.options), !.busy = FALSE]

Lies(p, now) == {s \in Switches : now[s] # p.shown[s]}
Thrown(a, p, c) ==
  IF Kind(a) = "general" THEN [p EXCEPT !.toggling = FALSE]
  ELSE LET now == ShowsSaved(c) IN [p EXCEPT !.shown = now, !.odd = @ \union (Lies(p, now) \ {c.switch})]

\* The form as it was at the press follows the picture, stored or refused.
AfterLogo(i) ==
  /\ patches[i].op = "logo" /\ patches[i].step \in {"answered", "refused"}
  /\ patches' = [patches EXCEPT ![i].op = "brand", ![i].step = "sent"]
  /\ UNCHANGED <<config, desk, saves, edits>>

AnswerSettings(i) ==
  LET c == patches[i]
      p == desk[c.by]
  IN /\ c.step = "answered" /\ c.op # "logo"
     /\ Shows(c.by, CASE c.op = "load"   -> Loaded(p, c)
                      [] c.op = "brand"  -> Branded(p, c)
                      [] c.op = "switch" -> Thrown(c.by, p, c)
                      [] OTHER           -> [p EXCEPT !.busy = FALSE])
     /\ patches' = RemoveAt(patches, i)
     /\ UNCHANGED <<config, saves, edits>>

\* A call that failed: a switch stays as thrown; a cleared secret is shown as cleared.
FailSettings(i) ==
  LET c == patches[i]
      p == desk[c.by]
  IN /\ c.step = "refused"
     /\ Shows(c.by, CASE c.op = "load" -> IF Kind(c.by) = "general" THEN [p EXCEPT !.loaded = TRUE, !.odd = Switches] ELSE p
                      [] c.op = "switch" /\ Kind(c.by) = "sso" ->
                           [p EXCEPT !.shown["secret"] = @ /\ (c.switch = "secret" => c.value), !.odd = @ \union {c.switch}]
                      [] c.op = "switch" /\ Kind(c.by) # "sso" -> [p EXCEPT !.toggling = FALSE, !.odd = @ \union {c.switch}]
                      [] OTHER -> [p EXCEPT !.busy = FALSE])
     /\ patches' = RemoveAt(patches, i)
     /\ UNCHANGED <<config, saves, edits>>

FormsNext ==
  \/ \E a \in Admins : OpenSettings(a) \/ AddOption(a) \/ ConfirmDelete(a) \/ TypeName(a) \/ PickLogo(a) \/ ApplyColour(a) \/ SaveBranding(a)
                       \/ SaveIdentity(a) \/ ThrowFlag(a) \/ AskMaintenance(a) \/ ConfirmMaintenance(a) \/ PressHandoff(a)
  \/ \E a \in Admins : "options" \in story /\ \E n \in DOMAIN desk[a].options : TypeLabel(a, n) \/ PressDelete(a, n)
  \/ \E i \in DOMAIN patches : ReadConfig(i) \/ WriteConfig(i) \/ RefuseConfig(i) \/ AfterLogo(i) \/ AnswerSettings(i)
                              \/ FailSettings(i)

-----------------------------------------------------------------------------
FormsTypeOK ==
  /\ config.on \in [Switches -> BOOLEAN] /\ config.name \in Named /\ config.logo \in Named /\ IsHex(config.colour)
  /\ Keys(config.options) \subseteq Labels \ {""} /\ saves \in 0..MaxSaves /\ edits \in 0..MaxEdits
  /\ \A a \in Admins : /\ desk[a].shown \in [Switches -> BOOLEAN] /\ desk[a].asking \in {"none", "on", "off"}
                       /\ desk[a].removing \in Nat

\* A stored option's key, by which tickets and charts are grouped, is not lost by
\* renaming: a save takes away only keys that its page never saw as stored, those whose
\* option the admin deleted, emptied, or retyped while a save was on its way, and those
\* that were sent before the settings arrived and replaced the form.
KeyLossHasCause ==
  [][\A k \in Keys(config.options) \ Keys(config'.options), i \in DOMAIN patches :
       patches[i].step = "sent" /\ i \in DOMAIN patches' /\ patches'[i].step = "answered" => k \notin patches[i].locked \/ k \in patches[i].gone]_formsVars

\* Once nothing is on its way, a switch, and the secret's mark, show what is stored,
\* unless it was thrown while another was on its way, a call failed, answers of two
\* presses crossed, or another admin changed it.
SwitchesAreHonest ==
  \A a \in Admins : desk[a].loaded /\ Kind(a) # "branding" /\ ~Busy(a) => \A s \in Switches : desk[a].shown[s] = config.on[s] \/ s \in desk[a].odd
=============================================================================

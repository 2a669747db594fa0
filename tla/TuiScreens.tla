----------------------------- MODULE TuiScreens -----------------------------
(***************************************************************************)
(* The terminal UI: the root model and the screens of internal/tui.        *)
(*                                                                         *)
(* One event loop runs Update for one message at a time.  Whatever takes   *)
(* time is a command with a goroutine of its own, whose message comes back *)
(* later: by then the operator may be on another screen, and two commands  *)
(* may come back in either order.                                          *)
(***************************************************************************)
EXTENDS Integers, Sequences, FiniteSets, SequencesExt

CONSTANTS
  OsTools, CloudTools,  \* the tools of the database, by scope
  Platform,      \* OS tool -> its platform, or AnyPlatform
  ProviderEnv,   \* cloud tool -> its environment, "none" when unsupported
  Running,       \* environment -> its running instances
  CredentialEnv, \* what the operator may type -> where STS accepts it
  MaxInFlight    \* bound: commands that have not come back

Envs     == {"com", "gov"}
NoTool   == "none"
NoCred   == "none"
Creds    == DOMAIN CredentialEnv
Junk     == "junk"
NoText   == "nothing"
AnyPlatform == "any"
Stubs    == {"execution", "library", "history", "changes"}
Screens  == {"mainMenu", "osTools", "cloudTools", "modal", "selector", "quit"} \cup Stubs
Tools    == OsTools \cup CloudTools

IdsIn(env) == {i.id : i \in Running[env]}
Instances  == UNION {IdsIn(e) : e \in Envs}

ASSUME TuiAssumption ==
  /\ NoTool \notin Tools /\ OsTools \cap CloudTools = {}
  /\ {NoCred, Junk, NoText} \cap Creds = {}
  /\ MaxInFlight \in Nat \ {0}
  /\ \A e \in Envs : IsFiniteSet(Running[e])

VARIABLES
  screen,     \* Model.screen
  menu,       \* the tool list of the OS or cloud tools screen
  modal,      \* credentialInputModel, and "filing": the numbers of the commands
              \* that file what this modal had validated
  selector,   \* instanceSelectorModel
  envs,       \* Model.cloudEnvs: environment -> the credentials stored for it
  flight,     \* commands on their way, as <<number, command>>
  ticked,     \* history: the instances the operator has ticked in this selector
  overtaken   \* history: has something been asked before an earlier answer?

vars == <<screen, menu, modal, selector, envs, flight, ticked, overtaken>>

NoMenu     == [listed |-> FALSE, err |-> FALSE]
NoModal    == [returnTo |-> "mainMenu", pending |-> NoTool, env |-> "com",
               focus |-> 0, typed |-> NoText, validating |-> FALSE, filing |-> {}]
NoSelector == [tool |-> NoTool, shown |-> NoTool, env |-> "com", loaded |-> FALSE,
               rows |-> <<>>, selected |-> {}, cursor |-> 1]

\* The messages of the root model, and the commands of the screens.
Navigate(to, tool, ids)   == [kind |-> "navigate", to |-> to, tool |-> tool, ids |-> ids]
ShowModal(to, tool)       == [kind |-> "showModal", to |-> to, tool |-> tool]
Loaded(env, cred, to, tool) ==
  [kind |-> "loaded", env |-> env, cred |-> cred, to |-> to, tool |-> tool]
ListTools(scope)          == [kind |-> "tools", scope |-> scope]
ListInstances(tool, env, cred) ==
  [kind |-> "listing", tool |-> tool, env |-> env, cred |-> cred]
Validate(env, cred)       == [kind |-> "validate", env |-> env, cred |-> cred]

Kinds == {"navigate", "showModal", "loaded", "tools", "listing", "validate"}

TypeOK ==
  /\ screen \in Screens
  /\ menu \in [listed : BOOLEAN, err : BOOLEAN]
  /\ modal \in [returnTo : Screens, pending : OsTools \cup {NoTool}, env : Envs,
                focus : 0 .. 2, typed : Creds \cup {NoText, Junk}, validating : BOOLEAN,
                filing : SUBSET (1 .. MaxInFlight)]
  /\ selector \in [tool : OsTools \cup {NoTool}, shown : OsTools \cup {NoTool}, env : Envs,
                   loaded : BOOLEAN, rows : Seq(Instances), selected : SUBSET (Nat \ {0}),
                   cursor : Nat \ {0}]
  /\ envs \in [Envs -> Creds \cup {NoCred}]
  /\ \A x \in flight : x[1] \in 1 .. MaxInFlight /\ x[2].kind \in Kinds
  /\ ticked \subseteq Instances

Init ==
  /\ screen = "mainMenu"
  /\ menu = NoMenu /\ modal = NoModal /\ selector = NoSelector
  /\ envs = [e \in Envs |-> NoCred]
  /\ flight = {} /\ ticked = {} /\ overtaken = FALSE

Has(e) == envs[e] # NoCred

\* The commands f and one more, under a number that is free.
Free(f) == CHOOSE n \in 1 .. MaxInFlight : \A x \in f : x[1] # n

With(f, c) == f \cup {<<Free(f), c>>}

Pending(f, kinds) == \E x \in f : x[2].kind \in kinds

\* The operator's key sends command c off; nothing else of the root changes.
Dispatch(c) ==
  /\ Cardinality(flight) < MaxInFlight
  /\ flight' = With(flight, c)

-----------------------------------------------------------------------------
(* The root model: Update and screenModel.                                 *)

\* The environment a new selector starts with.
PreferredEnv == IF ~Has("com") /\ Has("gov") THEN "gov" ELSE "com"

\* A new child model and its Init command.
Open(to, tool, env, rest) ==
  /\ screen' = to
  /\ menu' = NoMenu /\ modal' = NoModal /\ ticked' = {}
  /\ selector' = IF to = "selector" THEN [NoSelector EXCEPT !.tool = tool, !.env = env]
                 ELSE NoSelector
  /\ flight' = CASE to = "selector" -> With(rest, ListInstances(tool, env, envs'[env]))
                 [] to \in {"osTools", "cloudTools"} -> With(rest, ListTools(to))
                 [] OTHER -> rest
  /\ overtaken' = (overtaken \/ (to = "selector" /\ Pending(rest, {"listing"})))

OnNavigate(c, rest) ==
  /\ c.kind = "navigate"
  /\ UNCHANGED envs
  /\ Open(c.to, c.tool, PreferredEnv, rest)

OnShowModal(c, rest) ==
  /\ c.kind = "showModal"
  /\ screen' = "modal"
  /\ modal' = [NoModal EXCEPT !.returnTo = c.to, !.pending = c.tool]
  /\ menu' = NoMenu /\ selector' = NoSelector /\ ticked' = {}
  /\ flight' = rest
  /\ overtaken' = (overtaken \/ Pending(rest, {"validate", "loaded"}))
  /\ UNCHANGED envs

\* The credentials are stored, and the operator goes on to the tool that was
\* waiting for them, or back.
OnCredentialsLoaded(c, rest) ==
  /\ c.kind = "loaded"
  /\ envs' = [envs EXCEPT ![c.env] = c.cred]
  /\ Open(IF c.tool # NoTool THEN "selector" ELSE c.to, c.tool,
          IF envs'["com"] = NoCred /\ envs'["gov"] # NoCred THEN "gov" ELSE "com", rest)

-----------------------------------------------------------------------------
(* The menus.                                                              *)

\* Mutant of OnTools: after an error the screen still counts as loading.
OnToolsNoError(c, rest) ==
  /\ c.kind = "tools"
  /\ menu' \in IF screen = c.scope THEN {[menu EXCEPT !.listed = TRUE], menu} ELSE {menu}
  /\ flight' = rest
  /\ UNCHANGED <<screen, modal, selector, envs, ticked, overtaken>>

\* The list of tools comes from the database, or an error does.
OnTools(c, rest) ==
  /\ c.kind = "tools"
  /\ menu' \in IF screen = c.scope
               THEN {[menu EXCEPT !.listed = TRUE], [menu EXCEPT !.err = TRUE]}
               ELSE {menu}
  /\ flight' = rest
  /\ UNCHANGED <<screen, modal, selector, envs, ticked, overtaken>>

MainMenuKey ==
  /\ screen = "mainMenu"
  /\ \/ \E to \in {"osTools", "cloudTools", "library", "history", "changes"} :
          Dispatch(Navigate(to, NoTool, {}))
     \/ Dispatch(ShowModal("mainMenu", NoTool))
  /\ UNCHANGED <<screen, menu, modal, selector, envs, ticked, overtaken>>

\* An OS tool needs credentials of some environment; without any the tool waits
\* for the operator to enter them.
OsToolsEnter(tool) ==
  /\ screen = "osTools" /\ menu.listed
  /\ Dispatch(IF Has("com") \/ Has("gov") THEN Navigate("selector", tool, {})
              ELSE ShowModal("osTools", tool))
  /\ UNCHANGED <<screen, menu, modal, selector, envs, ticked, overtaken>>

\* Mutant of CloudToolsEnter: any credentials will do.
CloudToolsEnterAny(tool) ==
  /\ screen = "cloudTools" /\ menu.listed
  /\ Dispatch(IF Has("com") \/ Has("gov") THEN Navigate("execution", tool, {})
              ELSE ShowModal("cloudTools", NoTool))
  /\ UNCHANGED <<screen, menu, modal, selector, envs, ticked, overtaken>>

\* A cloud tool needs those of its own provider and environment.
CloudToolsEnter(tool) ==
  /\ screen = "cloudTools" /\ menu.listed
  /\ \/ /\ ProviderEnv[tool] \notin Envs
        /\ menu' = [menu EXCEPT !.err = TRUE]
        /\ UNCHANGED flight
     \/ /\ ProviderEnv[tool] \in Envs
        /\ Dispatch(IF Has(ProviderEnv[tool]) THEN Navigate("execution", tool, {})
                    ELSE ShowModal("cloudTools", NoTool))
        /\ UNCHANGED menu
  /\ UNCHANGED <<screen, modal, selector, envs, ticked, overtaken>>

\* Esc goes back by one screen.
Escape ==
  /\ \/ screen \in {"osTools", "cloudTools"} \cup Stubs /\ Dispatch(Navigate("mainMenu", NoTool, {}))
     \/ screen = "selector" /\ Dispatch(Navigate("osTools", NoTool, {}))
     \/ screen = "modal" /\ Dispatch(Navigate(modal.returnTo, NoTool, {}))
  /\ UNCHANGED <<screen, menu, modal, selector, envs, ticked, overtaken>>

Quit ==
  /\ screen # "quit"
  /\ screen' = "quit" /\ flight' = {} /\ ticked' = {}
  /\ menu' = NoMenu /\ modal' = NoModal /\ selector' = NoSelector
  /\ UNCHANGED <<envs, overtaken>>

-----------------------------------------------------------------------------
(* The credential modal.                                                   *)

Other(e) == IF e = "com" THEN "gov" ELSE "com"

\* Mutant of ModalFocus: the focus does not wrap around.
ModalFocusOn ==
  /\ screen = "modal"
  /\ \E d \in {1, 2} : modal' = [modal EXCEPT !.focus = @ + d]
  /\ UNCHANGED <<screen, menu, selector, envs, flight, ticked, overtaken>>

\* The next field or the previous one.
ModalFocus ==
  /\ screen = "modal"
  /\ \E d \in {1, 2} : modal' = [modal EXCEPT !.focus = (@ + d) % 3]
  /\ UNCHANGED <<screen, menu, selector, envs, flight, ticked, overtaken>>

\* The operator fills in the fields, or clears them.
ModalType ==
  /\ screen = "modal" /\ modal.focus = 0
  /\ \E text \in Creds \cup {NoText} : modal' = [modal EXCEPT !.typed = text]
  /\ UNCHANGED <<screen, menu, selector, envs, flight, ticked, overtaken>>

\* The commands of this modal that are to file what was validated.  Each reads the
\* modal's environment when it runs, while the operator may toggle it: some of them
\* (late) read the one toggled to.
Filing == {x \in flight : x[2].kind = "loaded" /\ x[1] \in modal.filing}

Refiled(late) ==
  (flight \ late) \cup
  {<<x[1], Loaded(Other(modal.env), x[2].cred, x[2].to, x[2].tool)>> : x \in late}

\* The key toggles the environment while the first field is empty and has the
\* focus; "e", unlike "ctrl+e", is also typed into that field.
ModalToggle ==
  /\ screen = "modal" /\ modal.focus = 0 /\ modal.typed = NoText
  /\ \E text \in {NoText, Junk} : modal' = [modal EXCEPT !.env = Other(@), !.typed = text]
  /\ \E late \in SUBSET Filing : flight' = Refiled(late)
  /\ overtaken' = (overtaken \/ Pending(flight, {"validate", "loaded"}))
  /\ UNCHANGED <<screen, menu, selector, envs, ticked>>

\* submitCmd: what is malformed is refused at once, the rest is sent to STS for
\* the environment of this moment.
ModalSubmit ==
  /\ screen = "modal" /\ modal.focus = 2
  /\ modal.typed \in Creds
  /\ Dispatch(Validate(modal.env, modal.typed))
  /\ modal' = [modal EXCEPT !.validating = TRUE]
  /\ overtaken' = (overtaken \/ Pending(flight, {"validate", "loaded"}))
  /\ UNCHANGED <<screen, menu, selector, envs, ticked>>

\* Mutant of OnValidated: whatever was validated is filed under com.
OnValidatedCom(c, rest) ==
  /\ c.kind = "validate"
  /\ IF screen = "modal"
     THEN \/ modal' = [modal EXCEPT !.validating = FALSE] /\ flight' = rest
          \/ /\ CredentialEnv[c.cred] = c.env
             /\ modal' = [modal EXCEPT !.validating = FALSE, !.filing = @ \cup {Free(rest)}]
             /\ flight' = With(rest, Loaded("com", c.cred, modal.returnTo, modal.pending))
     ELSE flight' = rest /\ UNCHANGED modal
  /\ UNCHANGED <<screen, menu, selector, envs, ticked, overtaken>>

\* The answer of STS, an error or a confirmation, goes to the modal that is open
\* by now and is filed under its environment, this one's or (ModalToggle) the next;
\* without a modal it is dropped.
OnValidated(c, rest) ==
  /\ c.kind = "validate"
  /\ IF screen = "modal"
     THEN \/ modal' = [modal EXCEPT !.validating = FALSE] /\ flight' = rest
          \/ /\ CredentialEnv[c.cred] = c.env
             /\ modal' = [modal EXCEPT !.validating = FALSE, !.filing = @ \cup {Free(rest)}]
             /\ flight' = With(rest, Loaded(modal.env, c.cred, modal.returnTo, modal.pending))
     ELSE flight' = rest /\ UNCHANGED modal
  /\ UNCHANGED <<screen, menu, selector, envs, ticked, overtaken>>

-----------------------------------------------------------------------------
(* The instance selector.                                                  *)

\* The instances of a listing: those of the tool's platform, all without one.
Listing(tool, env) == {i.id : i \in {x \in Running[env] : Platform[tool] \in {AnyPlatform, x.platform}}}

\* The listing comes back with instances or with an error: the tool is gone, no
\* credentials, EC2 refused or took 30 seconds.  EC2 lists in no order in particular.
\* Rows, selection and cursor of before an error stay.
OnListing(c, rest) ==
  /\ c.kind = "listing"
  /\ IF screen = "selector"
     THEN \/ selector' = [selector EXCEPT !.loaded = TRUE, !.shown = NoTool]
          \/ selector' = [selector EXCEPT !.loaded = TRUE, !.shown = c.tool]
          \/ /\ c.cred # NoCred
             /\ \E rows \in SetToSeqs(Listing(c.tool, c.env)) :
                  selector' = [selector EXCEPT !.loaded = TRUE, !.shown = c.tool, !.rows = rows]
     ELSE UNCHANGED selector
  /\ flight' = rest
  /\ UNCHANGED <<screen, menu, modal, envs, ticked, overtaken>>

\* Mutants of SelectorToggle: the listing is not asked for again; what was
\* selected stays selected.
SelectorToggleNoLoad ==
  /\ screen = "selector" /\ Has("com") /\ Has("gov")
  /\ selector' = [NoSelector EXCEPT !.tool = selector.tool, !.shown = selector.shown,
                                    !.env = Other(selector.env)]
  /\ ticked' = {}
  /\ UNCHANGED <<screen, menu, modal, envs, flight, overtaken>>

SelectorToggleKeep ==
  /\ screen = "selector" /\ Has("com") /\ Has("gov")
  /\ LET e == Other(selector.env) IN
       /\ selector' = [NoSelector EXCEPT !.tool = selector.tool, !.shown = selector.shown,
                                         !.env = e, !.selected = selector.selected]
       /\ Dispatch(ListInstances(selector.tool, e, envs[e]))
  /\ ticked' = {}
  /\ overtaken' = (overtaken \/ Pending(flight, {"listing"}))
  /\ UNCHANGED <<screen, menu, modal, envs>>

\* With both environments loaded the selector starts over with the other one.
SelectorToggle ==
  /\ screen = "selector" /\ Has("com") /\ Has("gov")
  /\ LET e == Other(selector.env) IN
       /\ selector' = [NoSelector EXCEPT !.tool = selector.tool, !.shown = selector.shown,
                                         !.env = e]
       /\ Dispatch(ListInstances(selector.tool, e, envs[e]))
  /\ ticked' = {}
  /\ overtaken' = (overtaken \/ Pending(flight, {"listing"}))
  /\ UNCHANGED <<screen, menu, modal, envs>>

\* The cursor stays within the rows.
SelectorMove ==
  /\ screen = "selector"
  /\ \E c \in {selector.cursor - 1, selector.cursor + 1} :
       /\ IF c < selector.cursor THEN c >= 1 ELSE c <= Len(selector.rows)
       /\ selector' = [selector EXCEPT !.cursor = c]
  /\ UNCHANGED <<screen, menu, modal, envs, flight, ticked, overtaken>>

\* Space ticks or unticks the row at the cursor.
Flip(set, x) == IF x \in set THEN set \ {x} ELSE set \cup {x}

SelectorTick ==
  /\ screen = "selector" /\ selector.rows # <<>>
  /\ selector' = [selector EXCEPT !.selected = Flip(@, selector.cursor)]
  /\ ticked' = IF selector.cursor \in DOMAIN selector.rows
               THEN Flip(ticked, selector.rows[selector.cursor]) ELSE ticked
  /\ UNCHANGED <<screen, menu, modal, envs, flight, overtaken>>

\* "a" selects every row, or none when as many are selected as there are rows.
SelectorTickAll ==
  /\ screen = "selector"
  /\ LET all == Cardinality(selector.selected) = Len(selector.rows) IN
       /\ selector' = [selector EXCEPT
                         !.selected = IF all THEN {} ELSE @ \cup DOMAIN selector.rows]
       /\ ticked' = IF all THEN {} ELSE {selector.rows[i] : i \in DOMAIN selector.rows}
  /\ UNCHANGED <<screen, menu, modal, envs, flight, overtaken>>

\* selectedIDs: the ids of the rows that are selected.
SelectedIds == {selector.rows[i] : i \in selector.selected \cap DOMAIN selector.rows}

\* Enter goes on to the execution screen, unless nothing is selected.
SelectorEnter ==
  /\ screen = "selector" /\ SelectedIds # {}
  /\ Dispatch(Navigate("execution", selector.shown, SelectedIds))
  /\ UNCHANGED <<screen, menu, modal, selector, envs, ticked, overtaken>>

-----------------------------------------------------------------------------
\* Update for the message of one of the commands.
Deliver(n) ==
  \E x \in flight :
    /\ x[1] = n
    /\ LET c == x[2]  rest == flight \ {x} IN
         \/ OnNavigate(c, rest) \/ OnShowModal(c, rest) \/ OnCredentialsLoaded(c, rest)
         \/ OnTools(c, rest) \/ OnValidated(c, rest) \/ OnListing(c, rest)

Key ==
  \/ MainMenuKey \/ Escape \/ Quit
  \/ \E tool \in OsTools : OsToolsEnter(tool)
  \/ \E tool \in CloudTools : CloudToolsEnter(tool)
  \/ ModalFocus \/ ModalType \/ ModalToggle \/ ModalSubmit
  \/ SelectorToggle \/ SelectorMove \/ SelectorTick \/ SelectorTickAll \/ SelectorEnter

Next == Key \/ \E n \in 1 .. MaxInFlight : Deliver(n)

Spec == Init /\ [][Next]_vars

-----------------------------------------------------------------------------
(* Properties.                                                             *)

\* Nothing is run without credentials of the environment it is run in, whatever
\* keys are pressed while a navigation is on its way: a cloud tool needs those
\* of its provider, an instance those of the environment that listed it.
NoRunWithoutCredentials ==
  \A x \in flight : x[2].kind = "navigate" /\ x[2].to = "execution" =>
    IF x[2].tool \in CloudTools THEN Has(ProviderEnv[x[2].tool])
    ELSE \E e \in Envs : Has(e) /\ x[2].ids \subseteq IdsIn(e)

\* As long as no answer was overtaken by a later question, what Enter would run
\* is what the operator ticked in this selector: the instances of the tool's
\* platform, in the environment the title names.
EnterRunsWhatWasTicked ==
  ~overtaken /\ screen = "selector" =>
    /\ SelectedIds = ticked
    /\ ticked # {} => /\ selector.shown = selector.tool
                      /\ ticked \subseteq Listing(selector.tool, selector.env)

\* Under the same condition the credentials that are filed for an environment,
\* and shown as active, are credentials STS accepted for that environment.
ActiveMeansValidated ==
  ~overtaken => \A e \in Envs : Has(e) => CredentialEnv[envs[e]] = e

\* Every command comes back: database calls are local, STS and EC2 calls have a
\* context with a deadline.  The operator may do nothing for ever.
FairSpec == Spec /\ \A n \in 1 .. MaxInFlight : WF_vars(Deliver(n))

\* No screen says "Loading..." or "Validating..." for ever, neither the menus of
\* tools nor the instance selector nor the modal: the tools, the instances, the
\* verdict of STS or an error come, or the operator leaves.
ScreensSettle ==
  /\ \A s \in {"osTools", "cloudTools"} :
       screen = s /\ ~menu.listed /\ ~menu.err ~> screen # s \/ menu.listed \/ menu.err
  /\ screen = "selector" /\ ~selector.loaded ~> screen # "selector" \/ selector.loaded
  /\ modal.validating ~> ~modal.validating

(***************************************************************************)
(* Inductive invariants.                                                   *)
(***************************************************************************)

Menus == {"mainMenu", "osTools", "cloudTools"}

\* What the commands carry: a selector is only opened for an OS tool, and nothing
\* leads back to anything but a menu.
Sound(c) ==
  /\ c.kind \in Kinds
  /\ c.kind = "navigate" =>
       c.to \in {"selector"} \cup Menus \cup Stubs /\ (c.to = "selector" => c.tool \in OsTools)
  /\ c.kind \in {"showModal", "loaded"} => c.to \in Menus /\ c.tool \in OsTools \cup {NoTool}
  /\ c.kind = "loaded" => c.env \in Envs /\ c.cred \in Creds
  /\ c.kind = "listing" => c.tool \in OsTools /\ c.env \in Envs /\ c.cred \in Creds \cup {NoCred}
  /\ c.kind = "validate" => c.env \in Envs /\ c.cred \in Creds

\* No two commands have one number, so that there is one for every new command.
FlightInv ==
  /\ \A x \in flight : Sound(x[2]) /\ \A y \in flight : x[1] = y[1] => x = y
  /\ modal.returnTo \in Menus
  /\ screen = "selector" => selector.tool \in OsTools

\* Credentials are never lost, and nothing is listed without them.
FundedInv ==
  /\ NoRunWithoutCredentials
  /\ \A x \in flight : x[2].kind = "listing" /\ x[2].cred # NoCred => Has(x[2].env)
  /\ \A x \in flight : x[2].kind = "navigate" /\ x[2].to = "execution" /\ x[2].tool \in CloudTools =>
                       ProviderEnv[x[2].tool] \in Envs
  /\ selector.rows # <<>> => \E e \in Envs : Has(e) /\ Range(selector.rows) \subseteq IdsIn(e)

\* Before its one listing comes a selector has no rows; then it has those of its
\* tool and environment, each once.
SelectorInv ==
  ~overtaken =>
    /\ \A x, y \in flight : x[2].kind = "listing" /\ y[2].kind = "listing" => x = y
    /\ screen = "selector" =>
         /\ \A x \in flight :
              x[2].kind = "listing" =>
                x[2].tool = selector.tool /\ x[2].env = selector.env /\ selector.rows = <<>>
         /\ SelectedIds = ticked
         /\ selector.rows = <<>> => selector.selected = {}
         /\ selector.rows # <<>> =>
              /\ selector.shown = selector.tool
              /\ Range(selector.rows) \subseteq Listing(selector.tool, selector.env)
              /\ IsInjective(selector.rows)

\* What STS is asked about is the environment the modal shows.
ValidatedInv ==
  ActiveMeansValidated /\
  (~overtaken =>
    \A x \in flight :
      /\ x[2].kind = "loaded" => CredentialEnv[x[2].cred] = x[2].env
      /\ x[2].kind = "validate" /\ screen = "modal" => x[2].env = modal.env)
=============================================================================

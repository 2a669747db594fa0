------------------------------ MODULE TuiProofs ------------------------------
(***************************************************************************)
(* What the screens of TuiScreens promise, for any tools, instances,       *)
(* credentials and number of commands on their way.                        *)
(***************************************************************************)
EXTENDS TuiScreens, SequenceTheorems, FiniteSetTheorems, TLAPS

-----------------------------------------------------------------------------
(* Listings.                                                               *)

LEMMA IsSeq ==
  ASSUME NEW S, NEW n \in Nat, NEW f \in [1 .. n -> S]
  PROVE  f \in Seq(S)
  <1>1. f \in UNION {[1 .. m -> S] : m \in Nat}
    OBVIOUS
  <1> QED
    BY <1>1, SeqDef

LEMMA ListingIn ==
  ASSUME NEW tool, NEW e \in Envs
  PROVE  Listing(tool, e) \subseteq IdsIn(e) /\ IsFiniteSet(Listing(tool, e))
  <1> DEFINE wanted == {x \in Running[e] : Platform[tool] \in {AnyPlatform, x.platform}}
             f == [i \in wanted |-> i.id]
  <1>1. IsFiniteSet(wanted)
    BY TuiAssumption, FS_Subset
  <1>2. f \in Surjection(wanted, Listing(tool, e))
    BY DEF Surjection, Listing
  <1>3. IsFiniteSet(Listing(tool, e))
    <2> HIDE DEF wanted, f
    <2> QED
      BY <1>1, <1>2, FS_Surjection
  <1> QED
    BY <1>3 DEF Listing, IdsIn

\* The rows of a listing.
LEMMA RowsOf ==
  ASSUME NEW tool, NEW e \in Envs, NEW rows \in SetToSeqs(Listing(tool, e))
  PROVE  /\ rows \in Seq(Instances) /\ IsInjective(rows)
         /\ Range(rows) \subseteq Listing(tool, e) /\ Range(rows) \subseteq IdsIn(e)
  <1> DEFINE S == Listing(tool, e)  n == Cardinality(S)
  <1>1. S \subseteq IdsIn(e) /\ n \in Nat
    BY ListingIn, FS_CardinalityType
  <1>2. rows \in [1 .. n -> S] /\ \A i, j \in 1 .. n : i # j => rows[i] # rows[j]
    BY DEF SetToSeqs
  <1>3. S \subseteq Instances
    BY <1>1 DEF Instances
  <1> HIDE DEF S, n
  <1>4. rows \in [1 .. n -> Instances]
    BY <1>2, <1>3
  <1>5. rows \in Seq(Instances)
    BY <1>1, <1>4, IsSeq
  <1>6. Range(rows) \subseteq S /\ IsInjective(rows)
    BY <1>2 DEF Range, IsInjective
  <1> QED
    BY <1>1, <1>5, <1>6 DEF S

-----------------------------------------------------------------------------
(* Commands on their way.                                                  *)

Numbered(f) ==
  \A x \in f : x[1] \in 1 .. MaxInFlight /\ \A y \in f : x[1] = y[1] => x = y

\* g has one command more than f.
Adds(f, g, c) == Numbered(g) /\ \E z : g = f \cup {z} /\ z[2] = c

LEMMA Joined ==
  ASSUME NEW f, Numbered(f), NEW c, NEW n \in 1 .. MaxInFlight, \A x \in f : x[1] # n
  PROVE  Adds(f, With(f, c), c) /\ Free(f) \in 1 .. MaxInFlight
  <1> DEFINE k == Free(f)
             z == <<k, c>>
  <1>1. k \in 1 .. MaxInFlight /\ \A x \in f : x[1] # k
    BY DEF Free
  <1>2. With(f, c) = f \cup {z} /\ z[1] = k /\ z[2] = c
    BY DEF With
  <1> HIDE DEF k, z
  <1>3. Numbered(f \cup {z})
    BY <1>1, <1>2 DEF Numbered
  <1> QED
    BY <1>1, <1>2, <1>3 DEF Adds, k

\* The bound leaves a number for the command of a key.
LEMMA FreeNumber ==
  ASSUME Numbered(flight), Cardinality(flight) < MaxInFlight
  PROVE  \E n \in 1 .. MaxInFlight : \A x \in flight : x[1] # n
  <1> SUFFICES ASSUME \A n \in 1 .. MaxInFlight : \E x \in flight : x[1] = n
               PROVE  FALSE
    OBVIOUS
  <1> DEFINE N == 1 .. MaxInFlight  f == [x \in flight |-> x[1]]
  <1>0. MaxInFlight \in Nat /\ MaxInFlight >= 1 /\ MaxInFlight \in Int /\ 1 \in Int
    <2>1. MaxInFlight \in Nat \ {0}
      BY TuiAssumption
    <2> QED
      BY <2>1
  <1>1. IsFiniteSet(N) /\ Cardinality(N) = MaxInFlight
    <2>1. IsFiniteSet(N) /\ Cardinality(N) = IF 1 > MaxInFlight THEN 0 ELSE MaxInFlight - 1 + 1
      BY <1>0, FS_Interval
    <2> QED
      BY <1>0, <2>1
  <1>2. f \in Injection(flight, N)
    BY DEF Injection, IsInjective, Numbered
  <1>3. f \in Surjection(flight, N)
    BY <1>2 DEF Surjection, Injection
  <1> HIDE DEF N, f
  <1>4. IsFiniteSet(flight)
    BY <1>1, <1>2, FS_Injection
  <1>5. MaxInFlight <= Cardinality(flight) /\ Cardinality(flight) \in Nat
    BY <1>1, <1>3, <1>4, FS_Surjection, FS_CardinalityType
  <1> QED
    BY <1>0, <1>5

LEMMA Dispatched ==
  ASSUME Numbered(flight), NEW c, Dispatch(c)
  PROVE  Adds(flight, flight', c)
  BY FreeNumber, Joined DEF Dispatch

\* A command that has come back leaves its number.
LEMMA Returned ==
  ASSUME Numbered(flight), NEW x \in flight, NEW c
  PROVE  /\ Numbered(flight \ {x}) /\ Adds(flight \ {x}, With(flight \ {x}, c), c)
         /\ Free(flight \ {x}) \in 1 .. MaxInFlight
  <1> DEFINE rest == flight \ {x}
  <1>1. Numbered(rest) /\ x[1] \in 1 .. MaxInFlight /\ \A y \in rest : y[1] # x[1]
    BY DEF Numbered
  <1> HIDE DEF rest
  <1>2. Adds(rest, With(rest, c), c) /\ Free(rest) \in 1 .. MaxInFlight
    BY <1>1, Joined
  <1> QED
    BY <1>1, <1>2 DEF rest

\* A toggle changes what some commands that file credentials carry, not their numbers.
LEMMA RefiledFlight ==
  ASSUME Numbered(flight), NEW late \in SUBSET Filing
  PROVE  /\ Numbered(Refiled(late))
         /\ \A y \in Refiled(late) :
              \/ y \in flight
              \/ \E x \in flight :
                   /\ x[2].kind = "loaded"
                   /\ y[2] = Loaded(Other(modal.env), x[2].cred, x[2].to, x[2].tool)
         /\ late = {} => Refiled(late) = flight
  <1>1. late \subseteq flight /\ \A x \in late : x[2].kind = "loaded"
    BY DEF Filing
  <1>2. \A y \in Refiled(late) :
          \/ y \in flight \ late
          \/ \E x \in late : /\ y[1] = x[1]
                           /\ y = <<x[1], Loaded(Other(modal.env), x[2].cred, x[2].to, x[2].tool)>>
    BY DEF Refiled
  <1>3. \A y \in Refiled(late) : y[1] \in 1 .. MaxInFlight
    BY <1>1, <1>2 DEF Numbered
  <1>4. \A y, z \in Refiled(late) : y[1] = z[1] => y = z
    BY <1>1, <1>2 DEF Numbered
  <1>5. \A y \in Refiled(late) :
          \/ y \in flight
          \/ \E x \in flight :
               /\ x[2].kind = "loaded"
               /\ y[2] = Loaded(Other(modal.env), x[2].cred, x[2].to, x[2].tool)
    BY <1>1, <1>2
  <1>6. late = {} => Refiled(late) = flight
    BY DEF Refiled
  <1> QED
    BY <1>3, <1>4, <1>5, <1>6 DEF Numbered

-----------------------------------------------------------------------------
(* Types, part by part.                                                    *)

ModalFits(m) ==
  /\ m \in [returnTo : Screens, pending : OsTools \cup {NoTool}, env : Envs,
            focus : 0 .. 2, typed : Creds \cup {NoText, Junk}, validating : BOOLEAN,
            filing : SUBSET (1 .. MaxInFlight)]
  /\ m.returnTo \in Menus

SelectorFits(s) ==
  s \in [tool : OsTools \cup {NoTool}, shown : OsTools \cup {NoTool}, env : Envs,
         loaded : BOOLEAN, rows : Seq(Instances), selected : SUBSET (Nat \ {0}),
         cursor : Nat \ {0}]

FlightFits(f) == Numbered(f) /\ \A x \in f : Sound(x[2])

Fits ==
  /\ screen \in Screens /\ menu \in [listed : BOOLEAN, err : BOOLEAN]
  /\ ModalFits(modal) /\ SelectorFits(selector) /\ FlightFits(flight)
  /\ screen = "selector" => selector.tool \in OsTools
  /\ envs \in [Envs -> Creds \cup {NoCred}] /\ ticked \subseteq Instances

LEMMA FitsIs == TypeOK /\ FlightInv <=> Fits
  BY DEF TypeOK, FlightInv, Fits, ModalFits, SelectorFits, FlightFits, Numbered, Sound

LEMMA FitsIsNext == (TypeOK /\ FlightInv <=> Fits)'
  BY FitsIs, PTL

LEMMA NothingFits ==
  /\ NoMenu \in [listed : BOOLEAN, err : BOOLEAN] /\ ModalFits(NoModal) /\ SelectorFits(NoSelector)
  BY EmptySeq DEF NoMenu, NoModal, NoSelector, ModalFits, SelectorFits, Menus, Screens, Envs

LEMMA MoreFit ==
  ASSUME NEW f, NEW g, NEW c, \A x \in f : Sound(x[2]), Sound(c), Adds(f, g, c)
  PROVE  FlightFits(g)
  BY DEF FlightFits, Adds

\* What the commands of the screens carry.
LEMMA Sounds ==
  /\ \A to \in Menus \cup Stubs : \A tool, ids : Sound(Navigate(to, tool, ids))
  /\ \A tool \in OsTools : \A ids : Sound(Navigate("selector", tool, ids))
  /\ \A to \in Menus, tool \in OsTools \cup {NoTool} : Sound(ShowModal(to, tool))
  /\ \A scope : Sound(ListTools(scope))
  /\ \A tool \in OsTools, e \in Envs, cred \in Creds \cup {NoCred} :
       Sound(ListInstances(tool, e, cred))
  /\ \A e \in Envs, cred \in Creds : Sound(Validate(e, cred))
  /\ \A e \in Envs, cred \in Creds, to \in Menus, tool \in OsTools \cup {NoTool} :
       Sound(Loaded(e, cred, to, tool))
  <1>1. \A to \in Menus \cup Stubs : \A tool, ids : Sound(Navigate(to, tool, ids))
    BY DEF Navigate, Sound, Kinds, Menus, Stubs
  <1>2. \A tool \in OsTools : \A ids : Sound(Navigate("selector", tool, ids))
    BY DEF Navigate, Sound, Kinds
  <1>3. \A to \in Menus, tool \in OsTools \cup {NoTool} : Sound(ShowModal(to, tool))
    BY DEF ShowModal, Sound, Kinds
  <1>4. \A scope : Sound(ListTools(scope))
    BY DEF ListTools, Sound, Kinds
  <1>5. \A tool \in OsTools, e \in Envs, cred \in Creds \cup {NoCred} :
          Sound(ListInstances(tool, e, cred))
    BY DEF ListInstances, Sound, Kinds
  <1>6. \A e \in Envs, cred \in Creds : Sound(Validate(e, cred))
    BY DEF Validate, Sound, Kinds
  <1>7. \A e \in Envs, cred \in Creds, to \in Menus, tool \in OsTools \cup {NoTool} :
          Sound(Loaded(e, cred, to, tool))
    BY DEF Loaded, Sound, Kinds
  <1> QED
    BY <1>1, <1>2, <1>3, <1>4, <1>5, <1>6, <1>7

-----------------------------------------------------------------------------
(* What the keys and messages come to.                                     *)

\* A key that only sends a command of the root model off.
Asks(c) ==
  /\ c.kind \in {"navigate", "showModal"} /\ Sound(c) /\ Adds(flight, flight', c)
  /\ c.kind = "navigate" /\ c.to = "execution" =>
       \/ c.tool \in CloudTools /\ ProviderEnv[c.tool] \in Envs /\ Has(ProviderEnv[c.tool])
       \/ c.tool \in OsTools \cup {NoTool} /\ c.ids = SelectedIds /\ SelectedIds # {}
  /\ UNCHANGED <<screen, menu, modal, selector, envs, ticked, overtaken>>

\* One that changes the screen in a way that does not matter to the others.
Edits ==
  /\ UNCHANGED <<screen, envs, flight, ticked, overtaken>>
  /\ menu' \in [listed : BOOLEAN, err : BOOLEAN] /\ ModalFits(modal') /\ SelectorFits(selector')
  /\ modal'.env = modal.env
  /\ \A f \in {"tool", "shown", "env", "rows", "selected"} : selector'[f] = selector[f]

\* A new screen, on commands that are left.
Opens(to, tool, env, rest) ==
  /\ screen' = to /\ menu' = NoMenu /\ modal' = NoModal /\ ticked' = {}
  /\ ~overtaken' => ~overtaken
  /\ to = "selector" =>
       /\ selector' = [NoSelector EXCEPT !.tool = tool, !.env = env]
       /\ Adds(rest, flight', ListInstances(tool, env, envs'[env]))
       /\ ~overtaken' => ~Pending(rest, {"listing"})
  /\ to # "selector" =>
       /\ selector' = NoSelector
       /\ flight' = rest \/ \E scope : Adds(rest, flight', ListTools(scope))

LEMMA Opening ==
  ASSUME NEW x \in flight, Numbered(flight), NEW to, NEW tool, NEW env,
         Open(to, tool, env, flight \ {x})
  PROVE  Opens(to, tool, env, flight \ {x})
  <1> DEFINE rest == flight \ {x}
  <1>1. \A c : Adds(rest, With(rest, c), c)
    BY Returned
  <1> HIDE DEF rest
  <1>2. Open(to, tool, env, rest)
    BY DEF rest
  <1>3. Opens(to, tool, env, rest)
    BY <1>1, <1>2 DEF Open, Opens
  <1> QED
    BY <1>3 DEF rest

\* The steps: keys that ask for something or change little, those that do more,
\* and the messages.
LEMMA Steps ==
  ASSUME Fits, [Next]_vars
  PROVE  \/ UNCHANGED vars
         \/ \E c : Asks(c)
         \/ Edits \/ ModalToggle \/ ModalSubmit
         \/ SelectorToggle \/ SelectorTick \/ SelectorTickAll \/ Quit
         \/ \E x \in flight :
              LET c == x[2]  rest == flight \ {x} IN
                \/ OnNavigate(c, rest) \/ OnShowModal(c, rest) \/ OnCredentialsLoaded(c, rest)
                \/ OnTools(c, rest) \/ OnValidated(c, rest) \/ OnListing(c, rest)
  <1>1. Numbered(flight)
    BY DEF Fits, FlightFits
  <1>2. ASSUME NEW c, Dispatch(c), c.kind \in {"navigate", "showModal"}, Sound(c),
               UNCHANGED <<screen, menu, modal, selector, envs, ticked, overtaken>>,
               c.kind = "navigate" /\ c.to = "execution" =>
                 \/ c.tool \in CloudTools /\ ProviderEnv[c.tool] \in Envs /\ Has(ProviderEnv[c.tool])
                 \/ c.tool \in OsTools \cup {NoTool} /\ c.ids = SelectedIds /\ SelectedIds # {}
        PROVE  Asks(c)
    BY <1>1, <1>2, Dispatched DEF Asks
  <1>3. ASSUME NEW to \in Menus \cup (Stubs \ {"execution"}), NEW tool, NEW ids,
               Dispatch(Navigate(to, tool, ids)),
               UNCHANGED <<screen, menu, modal, selector, envs, ticked, overtaken>>
        PROVE  Asks(Navigate(to, tool, ids))
    <2> DEFINE c == Navigate(to, tool, ids)
    <2>1. c.kind = "navigate" /\ c.to = to /\ Sound(c) /\ to # "execution"
      BY Sounds DEF Navigate, Menus
    <2> HIDE DEF c
    <2>2. Dispatch(c)
      BY <1>3 DEF c
    <2>3. Asks(c)
      BY <1>2, <1>3, <2>1, <2>2
    <2> QED
      BY <2>3 DEF c
  <1>4. ASSUME NEW to \in Menus, NEW tool \in OsTools \cup {NoTool}, Dispatch(ShowModal(to, tool)),
               UNCHANGED <<screen, menu, modal, selector, envs, ticked, overtaken>>
        PROVE  Asks(ShowModal(to, tool))
    <2> DEFINE c == ShowModal(to, tool)
    <2>1. c.kind = "showModal" /\ Sound(c)
      BY Sounds DEF ShowModal
    <2> HIDE DEF c
    <2>2. Dispatch(c)
      BY <1>4 DEF c
    <2>3. Asks(c)
      BY <1>2, <1>4, <2>1, <2>2
    <2> QED
      BY <2>3 DEF c
  <1>5. CASE MainMenuKey
    BY <1>3, <1>4, <1>5 DEF MainMenuKey, Menus, Stubs
  <1>6. CASE Escape
    <2>1. modal.returnTo \in Menus
      BY DEF Fits, ModalFits
    <2> QED
      BY <1>3, <1>6, <2>1 DEF Escape, Menus, Stubs
  <1>7. ASSUME NEW tool \in OsTools, OsToolsEnter(tool) PROVE \E c : Asks(c)
    <2> DEFINE c == Navigate("selector", tool, {})
    <2>1. c.kind = "navigate" /\ c.to = "selector" /\ Sound(c)
      BY Sounds DEF Navigate
    <2> HIDE DEF c
    <2>2. Dispatch(c) => Asks(c)
      BY <1>2, <1>7, <2>1 DEF OsToolsEnter
    <2> QED
      BY <1>4, <1>7, <2>2 DEF OsToolsEnter, Menus, c
  <1>8. ASSUME NEW tool \in CloudTools, CloudToolsEnter(tool) PROVE (\E c : Asks(c)) \/ Edits
    <2>1. CASE /\ menu' = [menu EXCEPT !.err = TRUE]
               /\ UNCHANGED <<screen, modal, selector, envs, flight, ticked, overtaken>>
      BY <2>1 DEF Edits, Fits
    <2>2. CASE /\ ProviderEnv[tool] \in Envs /\ Has(ProviderEnv[tool])
               /\ Dispatch(Navigate("execution", tool, {}))
               /\ UNCHANGED <<screen, menu, modal, selector, envs, ticked, overtaken>>
      <3> DEFINE c == Navigate("execution", tool, {})
      <3>1. c.kind = "navigate" /\ c.tool = tool /\ Sound(c)
        BY Sounds DEF Navigate, Stubs
      <3> HIDE DEF c
      <3>2. Dispatch(c)
        BY <2>2 DEF c
      <3>3. Asks(c)
        BY <1>2, <2>2, <3>1, <3>2
      <3> QED
        BY <3>3
    <2>3. CASE /\ Dispatch(ShowModal("cloudTools", NoTool))
               /\ UNCHANGED <<screen, menu, modal, selector, envs, ticked, overtaken>>
      BY <1>4, <2>3 DEF Menus
    <2> QED
      BY <1>8, <2>1, <2>2, <2>3 DEF CloudToolsEnter
  <1>9. CASE SelectorEnter
    <2> DEFINE c == Navigate("execution", selector.shown, SelectedIds)
    <2>1. c.kind = "navigate" /\ c.tool = selector.shown /\ c.ids = SelectedIds /\ Sound(c)
      BY Sounds DEF Navigate, Stubs
    <2>2. selector.shown \in OsTools \cup {NoTool}
      BY DEF Fits, SelectorFits
    <2> HIDE DEF c
    <2>3. /\ Dispatch(c) /\ SelectedIds # {}
          /\ UNCHANGED <<screen, menu, modal, selector, envs, ticked, overtaken>>
      BY <1>9 DEF SelectorEnter, c
    <2>4. Asks(c)
      BY <1>2, <2>1, <2>2, <2>3
    <2> QED
      BY <2>4
  <1>10. CASE ModalFocus \/ ModalType
    <2>1. /\ UNCHANGED <<screen, menu, selector, envs, flight, ticked, overtaken>>
          /\ \/ \E d \in {1, 2} : modal' = [modal EXCEPT !.focus = (@ + d) % 3]
             \/ \E text \in Creds \cup {NoText} : modal' = [modal EXCEPT !.typed = text]
      BY <1>10 DEF ModalFocus, ModalType
    <2>2. ModalFits(modal)
      BY DEF Fits
    <2>3. ModalFits(modal') /\ modal'.env = modal.env
      <3>1. ASSUME NEW d \in {1, 2}, modal' = [modal EXCEPT !.focus = (@ + d) % 3]
            PROVE  ModalFits(modal') /\ modal'.env = modal.env
        <4>1. (modal.focus + d) % 3 \in 0 .. 2
          BY <2>2 DEF ModalFits
        <4> QED
          BY <2>2, <3>1, <4>1 DEF ModalFits
      <3>2. ASSUME NEW text \in Creds \cup {NoText}, modal' = [modal EXCEPT !.typed = text]
            PROVE  ModalFits(modal') /\ modal'.env = modal.env
        BY <2>2, <3>2 DEF ModalFits
      <3> QED
        BY <2>1, <3>1, <3>2
    <2>4. Edits
      BY <2>1, <2>3 DEF Edits, Fits
    <2> QED
      BY <2>4
  <1>11. CASE SelectorMove
    <2>1. SelectorFits(selector)
      BY DEF Fits
    <2>2. PICK n \in {selector.cursor - 1, selector.cursor + 1} :
            /\ IF n < selector.cursor THEN n >= 1 ELSE n <= Len(selector.rows)
            /\ selector' = [selector EXCEPT !.cursor = n]
      BY <1>11 DEF SelectorMove
    <2>3. n \in Nat \ {0}
      BY <2>1, <2>2 DEF SelectorFits
    <2>4. /\ SelectorFits(selector')
          /\ \A f \in {"tool", "shown", "env", "rows", "selected"} : selector'[f] = selector[f]
      BY <2>1, <2>2, <2>3 DEF SelectorFits
    <2>5. Edits
      BY <1>11, <2>4 DEF SelectorMove, Edits, Fits
    <2> QED
      BY <2>5
  <1>12. CASE \E n \in 1 .. MaxInFlight : Deliver(n)
    BY <1>12 DEF Deliver
  <1>13. CASE UNCHANGED vars
    BY <1>13
  <1> QED
    BY <1>5, <1>6, <1>7, <1>8, <1>9, <1>10, <1>11, <1>12, <1>13 DEF Next, Key

-----------------------------------------------------------------------------
(* Types.                                                                  *)

\* A command that has come back.
LEMMA Left ==
  ASSUME Fits, NEW x \in flight
  PROVE  FlightFits(flight \ {x}) /\ Sound(x[2])
  BY DEF Fits, FlightFits, Numbered

LEMMA OpensFits ==
  ASSUME Fits, NEW x \in flight, NEW to \in {"selector"} \cup Menus \cup Stubs, NEW tool,
         to = "selector" => tool \in OsTools, NEW env \in Envs,
         envs' \in [Envs -> Creds \cup {NoCred}], Opens(to, tool, env, flight \ {x})
  PROVE  Fits'
  <1> DEFINE rest == flight \ {x}
  <1>1. FlightFits(rest)
    BY Left
  <1> HIDE DEF rest
  <1>2. Opens(to, tool, env, rest)
    BY DEF rest
  <1>3. screen' \in Screens /\ ticked' \subseteq Instances
    BY <1>2 DEF Opens, Screens, Menus
  <1>4. CASE to = "selector"
    <2>1. SelectorFits(selector') /\ selector'.tool \in OsTools
      BY <1>2, <1>4, NothingFits DEF Opens, SelectorFits
    <2>2. envs'[env] \in Creds \cup {NoCred}
      OBVIOUS
    <2>3. FlightFits(flight')
      <3> DEFINE c == ListInstances(tool, env, envs'[env])
      <3>1. Sound(c)
        BY <1>4, <2>2, Sounds
      <3>2. Adds(rest, flight', c)
        BY <1>2, <1>4 DEF Opens
      <3> HIDE DEF c
      <3> QED
        BY <1>1, <3>1, <3>2, MoreFit DEF FlightFits
    <2> QED
      BY <1>2, <1>3, <2>1, <2>3, NothingFits DEF Opens, Fits
  <1>5. CASE to # "selector"
    <2>1. FlightFits(flight')
      BY <1>1, <1>2, <1>5, MoreFit, Sounds DEF Opens, FlightFits
    <2> QED
      BY <1>2, <1>3, <1>5, <2>1, NothingFits DEF Opens, Fits
  <1> QED
    BY <1>4, <1>5

LEMMA FitsStep == ASSUME Fits, [Next]_vars PROVE Fits'
  <1>1. /\ ModalFits(modal) /\ SelectorFits(selector) /\ FlightFits(flight)
        /\ screen = "selector" => selector.tool \in OsTools
        /\ envs \in [Envs -> Creds \cup {NoCred}] /\ ticked \subseteq Instances
        /\ selector.rows \in Seq(Instances) /\ selector.selected \subseteq Nat \ {0}
        /\ selector.cursor \in Nat \ {0}
    BY DEF Fits, SelectorFits
  <1>2. CASE UNCHANGED vars
    BY <1>2 DEF vars, Fits
  <1>3. ASSUME NEW c, Asks(c) PROVE Fits'
    <2>1. FlightFits(flight')
      BY <1>1, <1>3, MoreFit DEF Asks, FlightFits
    <2> QED
      BY <1>3, <2>1 DEF Asks, Fits
  <1>4. CASE Edits
    BY <1>4 DEF Edits, Fits
  <1>5. CASE ModalToggle
    <2>1. PICK text \in {NoText, Junk} : modal' = [modal EXCEPT !.env = Other(@), !.typed = text]
      BY <1>5 DEF ModalToggle
    <2>2. Other(modal.env) \in Envs
      BY DEF Other, Envs
    <2>3. ModalFits(modal')
      BY <1>1, <2>1, <2>2 DEF ModalFits
    <2>4. PICK late \in SUBSET Filing : flight' = Refiled(late)
      BY <1>5 DEF ModalToggle
    <2>5. Numbered(flight)
      BY <1>1 DEF FlightFits
    <2>6. ASSUME NEW x \in flight, x[2].kind = "loaded"
          PROVE  Sound(Loaded(Other(modal.env), x[2].cred, x[2].to, x[2].tool))
      BY <1>1, <2>2, <2>6, Sounds DEF FlightFits, Sound
    <2>7. \A y \in flight' : Sound(y[2])
      BY <1>1, <2>4, <2>5, <2>6, RefiledFlight DEF FlightFits
    <2>8. FlightFits(flight')
      BY <2>4, <2>5, <2>7, RefiledFlight DEF FlightFits
    <2> QED
      BY <1>5, <2>3, <2>8 DEF ModalToggle, Fits
  <1>6. CASE ModalSubmit
    <2> DEFINE c == Validate(modal.env, modal.typed)
    <2>1. ModalFits(modal')
      BY <1>1, <1>6 DEF ModalSubmit, ModalFits
    <2>2. Sound(c)
      BY <1>1, <1>6, Sounds DEF ModalSubmit, ModalFits
    <2>3. Dispatch(c)
      BY <1>6 DEF ModalSubmit
    <2> HIDE DEF c
    <2>4. FlightFits(flight')
      BY <1>1, <2>2, <2>3, Dispatched, MoreFit DEF FlightFits
    <2> QED
      BY <1>6, <2>1, <2>4 DEF ModalSubmit, Fits
  <1>7. CASE SelectorToggle
    <2> DEFINE e == Other(selector.env)  c == ListInstances(selector.tool, e, envs[e])
    <2>1. e \in Envs /\ envs[e] \in Creds \cup {NoCred}
      BY <1>1 DEF Other, Envs
    <2>2. selector' = [NoSelector EXCEPT !.tool = selector.tool, !.shown = selector.shown, !.env = e]
      BY <1>7 DEF SelectorToggle
    <2>3. SelectorFits(selector') /\ selector'.tool = selector.tool
      BY <1>1, <2>1, <2>2, NothingFits DEF SelectorFits
    <2>4. Sound(c)
      BY <1>1, <1>7, <2>1, Sounds DEF SelectorToggle
    <2>5. Dispatch(c)
      BY <1>7 DEF SelectorToggle
    <2> HIDE DEF c
    <2>6. FlightFits(flight')
      BY <1>1, <2>4, <2>5, Dispatched, MoreFit DEF FlightFits
    <2> QED
      BY <1>1, <1>7, <2>3, <2>6 DEF SelectorToggle, Fits
  <1>8. CASE SelectorTick
    <2>1. Flip(selector.selected, selector.cursor) \in SUBSET (Nat \ {0})
      BY <1>1 DEF Flip
    <2>2. SelectorFits(selector') /\ selector'.tool = selector.tool
      BY <1>1, <1>8, <2>1 DEF SelectorTick, SelectorFits
    <2>3. ticked' \subseteq Instances
      BY <1>1, <1>8, ElementOfSeq, LenProperties DEF SelectorTick, Flip
    <2> QED
      BY <1>1, <1>8, <2>2, <2>3 DEF SelectorTick, Fits
  <1>9. CASE SelectorTickAll
    <2>1. DOMAIN selector.rows \subseteq Nat \ {0}
      BY <1>1, LenProperties
    <2>2. SelectorFits(selector') /\ selector'.tool = selector.tool
      BY <1>1, <1>9, <2>1 DEF SelectorTickAll, SelectorFits
    <2>3. ticked' \subseteq Instances
      BY <1>1, <1>9, ElementOfSeq, LenProperties DEF SelectorTickAll
    <2> QED
      BY <1>1, <1>9, <2>2, <2>3 DEF SelectorTickAll, Fits
  <1>10. CASE Quit
    <2>1. FlightFits({})
      BY DEF FlightFits, Numbered
    <2> QED
      BY <1>1, <1>10, <2>1, NothingFits DEF Quit, Fits, Screens
  <1>11. ASSUME NEW x \in flight, OnNavigate(x[2], flight \ {x}) PROVE Fits'
    <2>1. PreferredEnv \in Envs
      BY DEF PreferredEnv, Envs
    <2>2. Opens(x[2].to, x[2].tool, PreferredEnv, flight \ {x})
      BY <1>1, <1>11, Opening DEF OnNavigate, FlightFits
    <2> QED
      BY <1>1, <1>11, <2>1, <2>2, Left, OpensFits DEF OnNavigate, Sound
  <1>12. ASSUME NEW x \in flight, OnCredentialsLoaded(x[2], flight \ {x}) PROVE Fits'
    <2> DEFINE c == x[2]
               to == IF c.tool # NoTool THEN "selector" ELSE c.to
               env == IF envs'["com"] = NoCred /\ envs'["gov"] # NoCred THEN "gov" ELSE "com"
    <2>1. c.kind = "loaded" /\ envs' = [envs EXCEPT ![c.env] = c.cred] /\ Sound(c)
      BY <1>12, Left DEF OnCredentialsLoaded
    <2>2. envs' \in [Envs -> Creds \cup {NoCred}]
      BY <1>1, <2>1 DEF Sound
    <2>3. env \in Envs
      BY DEF Envs
    <2>4. to \in {"selector"} \cup Menus \cup Stubs /\ (to = "selector" => c.tool \in OsTools)
      BY <2>1 DEF Sound, Menus
    <2>5. Open(to, c.tool, env, flight \ {x})
      BY <1>12 DEF OnCredentialsLoaded
    <2> HIDE DEF to, env, c
    <2>6. Opens(to, c.tool, env, flight \ {x})
      BY <1>1, <2>5, Opening DEF FlightFits
    <2> QED
      BY <2>2, <2>3, <2>4, <2>6, OpensFits
  <1>13. ASSUME NEW x \in flight, OnShowModal(x[2], flight \ {x}) PROVE Fits'
    <2>1. x[2].to \in Menus /\ x[2].tool \in OsTools \cup {NoTool} /\ FlightFits(flight \ {x})
      BY <1>13, Left DEF OnShowModal, Sound
    <2>2. ModalFits(modal')
      BY <1>13, <2>1, NothingFits DEF OnShowModal, ModalFits, Menus, Screens
    <2> QED
      BY <1>1, <1>13, <2>1, <2>2, NothingFits DEF OnShowModal, Fits, Screens
  <1>14. ASSUME NEW x \in flight, OnTools(x[2], flight \ {x}) PROVE Fits'
    <2>1. FlightFits(flight \ {x})
      BY Left
    <2>2. menu' \in [listed : BOOLEAN, err : BOOLEAN]
      BY <1>14 DEF OnTools, Fits
    <2> QED
      BY <1>14, <2>1, <2>2 DEF OnTools, Fits
  <1>15. ASSUME NEW x \in flight, OnValidated(x[2], flight \ {x}) PROVE Fits'
    <2> DEFINE c == x[2]  rest == flight \ {x}
               n == Loaded(modal.env, c.cred, modal.returnTo, modal.pending)
    <2>1. FlightFits(rest) /\ Sound(c) /\ c.kind = "validate"
      BY <1>15, Left DEF OnValidated
    <2>2. Sound(n)
      BY <1>1, <2>1, Sounds DEF Sound, ModalFits
    <2> HIDE DEF n
    <2>3. FlightFits(With(rest, n))
      BY <1>1, <2>1, <2>2, Returned, MoreFit DEF FlightFits
    <2> HIDE DEF rest
    <2>4. FlightFits(flight')
      BY <1>15, <2>1, <2>3 DEF OnValidated, rest, n
    <2>5. Free(flight \ {x}) \in 1 .. MaxInFlight
      BY <1>1, Returned DEF FlightFits
    <2>6. ModalFits(modal')
      <3>1. ASSUME NEW filing \in SUBSET (1 .. MaxInFlight),
                   modal' = [modal EXCEPT !.validating = FALSE, !.filing = filing]
            PROVE  ModalFits(modal')
        BY <1>1, <3>1 DEF ModalFits
      <3>2. modal.filing \in SUBSET (1 .. MaxInFlight)
        BY <1>1 DEF ModalFits
      <3>3. ASSUME modal' = [modal EXCEPT !.validating = FALSE]
            PROVE  ModalFits(modal')
        BY <1>1, <3>3 DEF ModalFits
      <3>4. ASSUME modal' = [modal EXCEPT !.validating = FALSE,
                                          !.filing = @ \cup {Free(flight \ {x})}]
            PROVE  ModalFits(modal')
        BY <2>5, <3>1, <3>2, <3>4
      <3> QED
        BY <1>1, <1>15, <3>3, <3>4 DEF OnValidated
    <2> QED
      BY <1>1, <1>15, <2>4, <2>6 DEF OnValidated, Fits
  <1>16. ASSUME NEW x \in flight, OnListing(x[2], flight \ {x}) PROVE Fits'
    <2> DEFINE c == x[2]
    <2>1. FlightFits(flight \ {x}) /\ c.tool \in OsTools /\ c.env \in Envs
      BY <1>16, Left DEF OnListing, Sound
    <2>2. SelectorFits(selector') /\ selector'.tool = selector.tool
      <3>1. ASSUME NEW shown \in OsTools \cup {NoTool},
                   selector' = [selector EXCEPT !.loaded = TRUE, !.shown = shown]
            PROVE  SelectorFits(selector') /\ selector'.tool = selector.tool
        BY <1>1, <3>1 DEF SelectorFits
      <3>2. ASSUME NEW rows \in SetToSeqs(Listing(c.tool, c.env)),
                   selector' = [selector EXCEPT !.loaded = TRUE, !.shown = c.tool, !.rows = rows]
            PROVE  SelectorFits(selector') /\ selector'.tool = selector.tool
        BY <1>1, <2>1, <3>2, RowsOf DEF SelectorFits
      <3> QED
        BY <1>1, <1>16, <2>1, <3>1, <3>2 DEF OnListing
    <2> QED
      BY <1>1, <1>16, <2>1, <2>2 DEF OnListing, Fits
  <1> QED
    BY <1>2, <1>3, <1>4, <1>5, <1>6, <1>7, <1>8, <1>9, <1>10, <1>11, <1>12, <1>13, <1>14, <1>15,
       <1>16, Steps

LEMMA FitsInit == Init => Fits
  BY NothingFits DEF Init, Fits, Screens, FlightFits, Numbered

LEMMA FitsAlways == Spec => []Fits
  BY FitsInit, FitsStep, PTL DEF Spec

\* The types of the screens hold for any tools, credentials and instances, however
\* many commands are on their way.
THEOREM TypeCorrect == Spec => []TypeOK
  <1>1. Fits => TypeOK
    BY FitsIs
  <1> QED
    BY <1>1, FitsAlways, PTL

-----------------------------------------------------------------------------
(* Credentials.                                                            *)

\* One command of FundedInv, and the rows, with the credentials there are.
Funded(E, c) ==
  /\ c.kind = "navigate" /\ c.to = "execution" =>
       IF c.tool \in CloudTools THEN ProviderEnv[c.tool] \in Envs /\ E[ProviderEnv[c.tool]] # NoCred
       ELSE \E e \in Envs : E[e] # NoCred /\ c.ids \subseteq IdsIn(e)
  /\ c.kind = "listing" /\ c.cred # NoCred => E[c.env] # NoCred

RowsFunded(E, rows) ==
  rows # <<>> => \E e \in Envs : E[e] # NoCred /\ Range(rows) \subseteq IdsIn(e)

LEMMA FundedIs ==
  FundedInv <=> (\A x \in flight : Funded(envs, x[2])) /\ RowsFunded(envs, selector.rows)
  BY DEF FundedInv, NoRunWithoutCredentials, Funded, RowsFunded, Has

LEMMA FundedIsNext ==
  (FundedInv <=> (\A x \in flight : Funded(envs, x[2])) /\ RowsFunded(envs, selector.rows))'
  BY FundedIs, PTL

\* With more credentials nothing loses them.
LEMMA FundedStays ==
  ASSUME NEW E, NEW F, \A e \in Envs : E[e] # NoCred => F[e] # NoCred
  PROVE  /\ \A c : Sound(c) /\ Funded(E, c) => Funded(F, c)
         /\ \A rows : RowsFunded(E, rows) => RowsFunded(F, rows)
  BY DEF Funded, RowsFunded, Sound

\* Listings of tools and instances.
LEMMA ListsFunded ==
  /\ \A E, scope : Funded(E, ListTools(scope))
  /\ \A E, tool, env : Funded(E, ListInstances(tool, env, E[env]))
  BY DEF Funded, ListTools, ListInstances

LEMMA AllFunded ==
  ASSUME NEW f, NEW g, NEW c, NEW E, Adds(f, g, c), Funded(E, c), \A x \in f : Funded(E, x[2])
  PROVE  \A x \in g : Funded(E, x[2])
  BY DEF Adds

LEMMA OpensFunded ==
  ASSUME NEW rest, \A x \in rest : Funded(envs', x[2]), NEW to, NEW tool, NEW env,
         Opens(to, tool, env, rest)
  PROVE  FundedInv'
  <1>1. CASE to = "selector"
    <2> DEFINE c == ListInstances(tool, env, envs'[env])
    <2>1. Funded(envs', c)
      BY ListsFunded
    <2>2. Adds(rest, flight', c) /\ selector' = [NoSelector EXCEPT !.tool = tool, !.env = env]
      BY <1>1 DEF Opens
    <2> HIDE DEF c
    <2>3. \A x \in flight' : Funded(envs', x[2])
      BY <2>1, <2>2, AllFunded
    <2>4. selector'.rows = <<>>
      BY <2>2 DEF NoSelector
    <2> QED
      BY <2>3, <2>4, FundedIsNext DEF RowsFunded
  <1>2. CASE to # "selector"
    <2>1. selector' = NoSelector /\ (flight' = rest \/ \E scope : Adds(rest, flight', ListTools(scope)))
      BY <1>2 DEF Opens
    <2>2. ASSUME NEW scope, Adds(rest, flight', ListTools(scope))
          PROVE  \A x \in flight' : Funded(envs', x[2])
      <3> DEFINE c == ListTools(scope)
      <3>1. Funded(envs', c) /\ Adds(rest, flight', c)
        BY <2>2, ListsFunded
      <3> HIDE DEF c
      <3> QED
        BY <3>1, AllFunded
    <2>3. \A x \in flight' : Funded(envs', x[2])
      BY <2>1, <2>2
    <2>4. selector'.rows = <<>>
      BY <2>1 DEF NoSelector
    <2> QED
      BY <2>3, <2>4, FundedIsNext DEF RowsFunded
  <1> QED
    BY <1>1, <1>2

LEMMA FundedStep == ASSUME Fits, FundedInv, [Next]_vars PROVE FundedInv'
  <1>1. (\A x \in flight : Funded(envs, x[2])) /\ RowsFunded(envs, selector.rows)
    BY FundedIs
  <1>2. /\ Numbered(flight) /\ selector.rows \in Seq(Instances)
        /\ \A x \in flight : Sound(x[2])
    BY DEF Fits, FlightFits, SelectorFits
  <1>3. ASSUME UNCHANGED envs, selector'.rows = selector.rows \/ selector'.rows = <<>>,
               \A x \in flight' : Funded(envs, x[2])
        PROVE  FundedInv'
    BY <1>1, <1>3, FundedIsNext DEF RowsFunded
  <1>4. \A x \in flight : \A y \in flight \ {x} : Funded(envs, y[2])
    BY <1>1
  <1>5. CASE UNCHANGED vars
    BY <1>1, <1>3, <1>5 DEF vars
  <1>6. ASSUME NEW c, Asks(c) PROVE FundedInv'
    <2>1. Funded(envs, c)
      <3>1. CASE c.tool \in OsTools \cup {NoTool} /\ c.ids = SelectedIds /\ SelectedIds # {}
        <4>1. c.tool \notin CloudTools
          BY <3>1, TuiAssumption DEF Tools
        <4>2. SelectedIds \subseteq Range(selector.rows) /\ selector.rows # <<>>
          BY <3>1, <1>2 DEF SelectedIds, Range
        <4> QED
          BY <1>1, <1>6, <3>1, <4>1, <4>2 DEF Funded, RowsFunded, Asks
      <3> QED
        BY <1>6, <3>1 DEF Asks, Funded, Has
    <2>2. \A x \in flight' : Funded(envs, x[2])
      BY <1>1, <1>6, <2>1, AllFunded DEF Asks
    <2> QED
      BY <1>3, <1>6, <2>2 DEF Asks
  <1>7. CASE Edits
    BY <1>1, <1>3, <1>7 DEF Edits
  <1>8. CASE ModalToggle
    <2>1. PICK late \in SUBSET Filing : flight' = Refiled(late)
      BY <1>8 DEF ModalToggle
    <2>2. \A env, cred, to, tool : Funded(envs, Loaded(env, cred, to, tool))
      BY DEF Loaded, Funded
    <2>3. \A y \in flight' : Funded(envs, y[2])
      BY <1>1, <1>2, <2>1, <2>2, RefiledFlight
    <2> QED
      BY <1>3, <1>8, <2>3 DEF ModalToggle
  <1>9. CASE ModalSubmit
    <2> DEFINE c == Validate(modal.env, modal.typed)
    <2>1. Funded(envs, c)
      BY DEF Validate, Funded
    <2>2. Dispatch(c)
      BY <1>9 DEF ModalSubmit
    <2> HIDE DEF c
    <2>3. \A x \in flight' : Funded(envs, x[2])
      BY <1>1, <1>2, <2>1, <2>2, Dispatched, AllFunded
    <2> QED
      BY <1>3, <1>9, <2>3 DEF ModalSubmit
  <1>10. CASE SelectorToggle
    <2> DEFINE e == Other(selector.env)  c == ListInstances(selector.tool, e, envs[e])
    <2>1. Funded(envs, c) /\ Dispatch(c)
      BY <1>10, ListsFunded DEF SelectorToggle
    <2>2. selector'.rows = <<>>
      BY <1>10 DEF SelectorToggle, NoSelector
    <2> HIDE DEF c
    <2>3. \A x \in flight' : Funded(envs, x[2])
      BY <1>1, <1>2, <2>1, Dispatched, AllFunded
    <2> QED
      BY <1>3, <1>10, <2>2, <2>3 DEF SelectorToggle
  <1>11. CASE SelectorTick \/ SelectorTickAll
    <2>1. selector'.rows = selector.rows /\ UNCHANGED <<envs, flight>>
      BY <1>11 DEF SelectorTick, SelectorTickAll, Fits, SelectorFits
    <2> QED
      BY <1>1, <1>3, <2>1
  <1>12. CASE Quit
    BY <1>3, <1>12 DEF Quit, NoSelector
  <1>13. ASSUME NEW x \in flight, OnNavigate(x[2], flight \ {x}) PROVE FundedInv'
    <2>1. Opens(x[2].to, x[2].tool, PreferredEnv, flight \ {x}) /\ UNCHANGED envs
      BY <1>2, <1>13, Opening DEF OnNavigate
    <2> QED
      BY <1>4, <2>1, OpensFunded
  <1>14. ASSUME NEW x \in flight, OnCredentialsLoaded(x[2], flight \ {x}) PROVE FundedInv'
    <2> DEFINE c == x[2]  rest == flight \ {x}
               to == IF c.tool # NoTool THEN "selector" ELSE c.to
               env == IF envs'["com"] = NoCred /\ envs'["gov"] # NoCred THEN "gov" ELSE "com"
    <2>1. envs' = [envs EXCEPT ![c.env] = c.cred] /\ c.cred \in Creds
      BY <1>2, <1>14 DEF OnCredentialsLoaded, Sound
    <2>2. \A e \in Envs : envs[e] # NoCred => envs'[e] # NoCred
      BY <2>1, TuiAssumption DEF Fits
    <2>3. \A y \in rest : Funded(envs', y[2])
      BY <1>2, <1>4, <2>2, FundedStays
    <2>4. Open(to, c.tool, env, rest)
      BY <1>14 DEF OnCredentialsLoaded
    <2> HIDE DEF to, env, c
    <2>5. Opens(to, c.tool, env, rest)
      BY <1>2, <2>4, Opening
    <2> HIDE DEF rest
    <2> QED
      BY <2>3, <2>5, OpensFunded
  <1>15. ASSUME NEW x \in flight, OnShowModal(x[2], flight \ {x}) PROVE FundedInv'
    BY <1>3, <1>4, <1>15 DEF OnShowModal, NoSelector
  <1>16. ASSUME NEW x \in flight, OnTools(x[2], flight \ {x}) PROVE FundedInv'
    BY <1>3, <1>4, <1>16 DEF OnTools
  <1>17. ASSUME NEW x \in flight, OnValidated(x[2], flight \ {x}) PROVE FundedInv'
    <2> DEFINE rest == flight \ {x}
               n == Loaded(modal.env, x[2].cred, modal.returnTo, modal.pending)
    <2>1. Funded(envs, n)
      BY DEF Loaded, Funded
    <2>2. (flight' = rest \/ flight' = With(rest, n)) /\ UNCHANGED <<selector, envs>>
      BY <1>17 DEF OnValidated
    <2> HIDE DEF n
    <2>3. Adds(rest, With(rest, n), n) /\ \A y \in rest : Funded(envs, y[2])
      BY <1>2, <1>4, Returned
    <2> HIDE DEF rest
    <2> QED
      BY <1>3, <2>1, <2>2, <2>3, AllFunded
  <1>18. ASSUME NEW x \in flight, OnListing(x[2], flight \ {x}) PROVE FundedInv'
    <2> DEFINE c == x[2]
    <2>1. UNCHANGED envs /\ \A y \in flight' : Funded(envs, y[2])
      BY <1>4, <1>18 DEF OnListing
    <2>2. c.kind = "listing" /\ c.env \in Envs
      BY <1>2, <1>18 DEF OnListing, Sound
    <2>3. CASE selector'.rows = selector.rows
      BY <1>3, <2>1, <2>3
    <2>4. ASSUME c.cred # NoCred, NEW rows \in SetToSeqs(Listing(c.tool, c.env)),
                 selector'.rows = rows
          PROVE  FundedInv'
      <3>1. envs[c.env] # NoCred /\ Range(rows) \subseteq IdsIn(c.env)
        BY <1>1, <2>2, <2>4, RowsOf DEF Funded
      <3> QED
        BY <2>1, <2>2, <2>4, <3>1, FundedIsNext DEF RowsFunded
    <2> QED
      <3>1. SelectorFits(selector)
        BY DEF Fits
      <3>2. \/ selector'.rows = selector.rows
            \/ c.cred # NoCred /\ \E rows \in SetToSeqs(Listing(c.tool, c.env)) : selector'.rows = rows
        BY <1>18, <3>1 DEF OnListing, SelectorFits
      <3> QED
        BY <2>3, <2>4, <3>2
  <1> QED
    BY <1>5, <1>6, <1>7, <1>8, <1>9, <1>10, <1>11, <1>12, <1>13, <1>14, <1>15, <1>16, <1>17, <1>18,
       Steps

\* Nothing is run in an environment without credentials of it, for any keys and
\* any order in which commands come back.
THEOREM NoRunWithoutCredentialsCorrect == Spec => []NoRunWithoutCredentials
  <1>1. Init => FundedInv
    BY DEF Init, NoSelector, FundedInv, NoRunWithoutCredentials
  <1>2. Fits /\ FundedInv /\ [Next]_vars => FundedInv'
    BY FundedStep
  <1>3. FundedInv => NoRunWithoutCredentials
    BY DEF FundedInv
  <1> QED
    BY <1>1, <1>2, <1>3, FitsAlways, PTL DEF Spec

-----------------------------------------------------------------------------
(* The instance selector.                                                  *)

\* SelectorInv, of the commands f, the selector s and what was ticked.
Asking(f) == \A x, y \in f : x[2].kind = "listing" /\ y[2].kind = "listing" => x = y

Awaits(f, s) ==
  \A x \in f : x[2].kind = "listing" => x[2].tool = s.tool /\ x[2].env = s.env /\ s.rows = <<>>

Shows(s, t) ==
  /\ {s.rows[i] : i \in s.selected \cap DOMAIN s.rows} = t
  /\ s.rows = <<>> => s.selected = {}
  /\ s.rows # <<>> =>
       s.shown = s.tool /\ Range(s.rows) \subseteq Listing(s.tool, s.env) /\ IsInjective(s.rows)

LEMMA SelectorIs ==
  SelectorInv <=> (~overtaken => /\ Asking(flight)
                                 /\ screen = "selector" => Awaits(flight, selector)
                                                           /\ Shows(selector, ticked))
  BY DEF SelectorInv, Asking, Awaits, Shows, SelectedIds

LEMMA SelectorIsNext ==
  (SelectorInv <=> (~overtaken => /\ Asking(flight)
                                  /\ screen = "selector" => Awaits(flight, selector)
                                                            /\ Shows(selector, ticked)))'
  BY SelectorIs, PTL

\* Without a new listing there is none to wait for but the old one.
LEMMA NoMoreAsked ==
  ASSUME NEW f, NEW g, \A x \in g : x[2].kind = "listing" => x \in f
  PROVE  (Asking(f) => Asking(g)) /\ \A s : Awaits(f, s) => Awaits(g, s)
  BY DEF Asking, Awaits

LEMMA OtherAdded ==
  ASSUME NEW f, NEW g, NEW c, Adds(f, g, c), c.kind # "listing"
  PROVE  \A x \in g : x[2].kind = "listing" => x \in f
  BY DEF Adds

\* A listing where there is no other, for a selector that starts.
LEMMA FirstAsked ==
  ASSUME NEW f, NEW g, NEW c, Adds(f, g, c), ~Pending(f, {"listing"}),
         NEW s, c.tool = s.tool, c.env = s.env, s.rows = <<>>
  PROVE  Asking(g) /\ Awaits(g, s)
  BY DEF Adds, Asking, Awaits, Pending

LEMMA StartShows == ASSUME NEW s, s.rows = <<>>, s.selected = {} PROVE Shows(s, {})
  BY DEF Shows

\* What counts of the selector.
LEMMA SameShown ==
  ASSUME NEW s, NEW r, \A f \in {"tool", "shown", "env", "rows", "selected"} : r[f] = s[f]
  PROVE  /\ \A t : Shows(s, t) => Shows(r, t)
         /\ \A f : Awaits(f, s) => Awaits(f, r)
  BY DEF Shows, Awaits

LEMMA OpensSelector ==
  ASSUME NEW rest, overtaken \/ Asking(rest), NEW to, NEW tool, NEW env, Opens(to, tool, env, rest)
  PROVE  SelectorInv'
  <1>1. CASE overtaken'
    BY <1>1, SelectorIsNext
  <1>2. CASE ~overtaken' /\ to = "selector"
    <2> DEFINE c == ListInstances(tool, env, envs'[env])
    <2>1. c.tool = tool /\ c.env = env
      BY DEF ListInstances
    <2>2. /\ Adds(rest, flight', c) /\ ~Pending(rest, {"listing"}) /\ ticked' = {}
          /\ selector' = [NoSelector EXCEPT !.tool = tool, !.env = env]
      BY <1>2 DEF Opens
    <2> HIDE DEF c
    <2>3. /\ selector'.tool = tool /\ selector'.env = env
          /\ selector'.rows = <<>> /\ selector'.selected = {}
      BY <2>2 DEF NoSelector
    <2>4. Asking(flight') /\ Awaits(flight', selector')
      BY <2>1, <2>2, <2>3, FirstAsked
    <2>5. Shows(selector', ticked')
      BY <2>2, <2>3, StartShows
    <2> QED
      BY <2>4, <2>5, SelectorIsNext
  <1>3. CASE ~overtaken' /\ to # "selector"
    <2>1. /\ Asking(rest) /\ screen' # "selector"
          /\ flight' = rest \/ \E scope : Adds(rest, flight', ListTools(scope))
      BY <1>3 DEF Opens
    <2>2. ASSUME NEW scope, Adds(rest, flight', ListTools(scope)) PROVE Asking(flight')
      <3> DEFINE c == ListTools(scope)
      <3>1. c.kind # "listing" /\ Adds(rest, flight', c)
        BY <2>2 DEF ListTools
      <3> HIDE DEF c
      <3> QED
        BY <2>1, <3>1, OtherAdded, NoMoreAsked
    <2> QED
      BY <2>1, <2>2, SelectorIsNext
  <1> QED
    BY <1>1, <1>2, <1>3

\* Ticking one row and ticking all of them.
LEMMA TickShows ==
  ASSUME SelectorFits(selector), Shows(selector, ticked), SelectorTick
  PROVE  Shows(selector', ticked')
  <1> DEFINE rows == selector.rows  k == selector.cursor  S == selector.selected
             In(X) == {rows[i] : i \in X \cap DOMAIN rows}
  <1>1. /\ selector'.rows = rows /\ selector'.shown = selector.shown
        /\ selector'.tool = selector.tool /\ selector'.env = selector.env
        /\ selector'.selected = Flip(S, k) /\ rows # <<>>
        /\ ticked' = IF k \in DOMAIN rows THEN Flip(ticked, rows[k]) ELSE ticked
    BY DEF SelectorTick, SelectorFits
  <1>2. In(S) = ticked /\ IsInjective(rows)
    BY <1>1 DEF Shows
  <1>3. In(Flip(S, k)) = ticked'
    <2>1. CASE k \notin DOMAIN rows
      BY <1>1, <1>2, <2>1 DEF Flip
    <2>2. CASE k \in DOMAIN rows /\ k \in S
      <3>1. rows[k] \in ticked
        BY <1>2, <2>2
      <3>2. In(S \ {k}) = In(S) \ {rows[k]}
        BY <1>2, <2>2 DEF IsInjective
      <3> QED
        BY <1>1, <1>2, <2>2, <3>1, <3>2 DEF Flip
    <2>3. CASE k \in DOMAIN rows /\ k \notin S
      <3>1. rows[k] \notin ticked
        BY <1>2, <2>3 DEF IsInjective
      <3>2. In(S \cup {k}) = In(S) \cup {rows[k]}
        BY <2>3
      <3> QED
        BY <1>1, <1>2, <2>3, <3>1, <3>2 DEF Flip
    <2> QED
      BY <2>1, <2>2, <2>3
  <1> QED
    BY <1>1, <1>3 DEF Shows

LEMMA TickAllShows ==
  ASSUME SelectorFits(selector), Shows(selector, ticked), SelectorTickAll
  PROVE  Shows(selector', ticked')
  <1> DEFINE rows == selector.rows  S == selector.selected
             all == Cardinality(S) = Len(rows)
  <1>1. /\ selector'.rows = rows /\ selector'.shown = selector.shown
        /\ selector'.tool = selector.tool /\ selector'.env = selector.env
        /\ selector'.selected = IF all THEN {} ELSE S \cup DOMAIN rows
        /\ ticked' = IF all THEN {} ELSE {rows[i] : i \in DOMAIN rows}
    BY DEF SelectorTickAll, SelectorFits
  <1>2. rows = <<>> => S = {} /\ DOMAIN rows = {}
    BY DEF Shows
  <1>3. rows # <<>> => selector.shown = selector.tool /\ Range(rows) \subseteq Listing(selector.tool, selector.env)
                       /\ IsInjective(rows)
    BY DEF Shows
  <1> HIDE DEF all, rows, S
  <1>4. {rows[i] : i \in selector'.selected \cap DOMAIN rows} = ticked'
    BY <1>1
  <1>5. rows = <<>> => selector'.selected = {}
    BY <1>1, <1>2
  <1> QED
    BY <1>1, <1>3, <1>4, <1>5 DEF Shows

LEMMA SelectorStep == ASSUME Fits, SelectorInv, [Next]_vars PROVE SelectorInv'
  <1>1. overtaken \/ /\ Asking(flight)
                     /\ screen = "selector" => Awaits(flight, selector) /\ Shows(selector, ticked)
    BY SelectorIs
  <1>2. Numbered(flight) /\ SelectorFits(selector) /\ \A x \in flight : Sound(x[2])
    BY DEF Fits, FlightFits
  <1>3. \A x \in flight : overtaken \/ Asking(flight \ {x})
    BY <1>1, NoMoreAsked
  \* Neither the screen nor the selector, and no new listing.
  <1>4. ASSUME UNCHANGED <<screen, ticked>>, overtaken => overtaken',
               \A f \in {"tool", "shown", "env", "rows", "selected"} : selector'[f] = selector[f],
               \A x \in flight' : x[2].kind = "listing" => x \in flight
        PROVE  SelectorInv'
    <2>1. CASE overtaken'
      BY <2>1, SelectorIsNext
    <2>2. CASE ~overtaken'
      <3>1. Asking(flight')
        BY <1>1, <1>4, <2>2, NoMoreAsked
      <3>2. CASE screen = "selector"
        BY <1>1, <1>4, <2>2, <3>1, <3>2, NoMoreAsked, SameShown, SelectorIsNext
      <3>3. CASE screen # "selector"
        BY <1>4, <3>1, <3>3, SelectorIsNext
      <3> QED
        BY <3>2, <3>3
    <2> QED
      BY <2>1, <2>2
  \* Away from the selector.
  <1>5. ASSUME screen' # "selector", overtaken => overtaken',
               \A x \in flight' : x[2].kind = "listing" => x \in flight
        PROVE  SelectorInv'
    BY <1>1, <1>5, NoMoreAsked, SelectorIsNext
  <1>6. CASE UNCHANGED vars
    BY <1>4, <1>6 DEF vars
  <1>7. ASSUME NEW c, Asks(c) PROVE SelectorInv'
    BY <1>4, <1>7, OtherAdded DEF Asks
  <1>8. CASE Edits
    BY <1>4, <1>8 DEF Edits
  <1>9. CASE ModalToggle
    <2>1. PICK late \in SUBSET Filing : flight' = Refiled(late)
      BY <1>9 DEF ModalToggle
    <2>2. \A env, cred, to, tool : Loaded(env, cred, to, tool).kind = "loaded"
      BY DEF Loaded
    <2>3. \A y \in flight' : y[2].kind = "listing" => y \in flight
      BY <1>2, <2>1, <2>2, RefiledFlight
    <2> QED
      BY <1>4, <1>9, <2>3 DEF ModalToggle
  <1>10. CASE ModalSubmit
    <2> DEFINE c == Validate(modal.env, modal.typed)
    <2>1. c.kind # "listing" /\ Dispatch(c)
      BY <1>10 DEF Validate, ModalSubmit
    <2> HIDE DEF c
    <2>2. \A x \in flight' : x[2].kind = "listing" => x \in flight
      BY <1>2, <2>1, Dispatched, OtherAdded
    <2> QED
      BY <1>4, <1>10, <2>2 DEF ModalSubmit
  <1>11. CASE SelectorToggle
    <2> DEFINE e == Other(selector.env)  c == ListInstances(selector.tool, e, envs[e])
    <2>1. c.tool = selector.tool /\ c.env = e /\ Dispatch(c)
      BY <1>11 DEF ListInstances, SelectorToggle
    <2>2. /\ selector'.tool = selector.tool /\ selector'.env = e
          /\ selector'.rows = <<>> /\ selector'.selected = {}
      BY <1>11 DEF SelectorToggle, NoSelector
    <2> HIDE DEF c
    <2>3. CASE overtaken'
      BY <2>3, SelectorIsNext
    <2>4. CASE ~overtaken'
      <3>1. ~Pending(flight, {"listing"}) /\ ticked' = {}
        BY <1>11, <2>4 DEF SelectorToggle
      <3>2. Asking(flight') /\ Awaits(flight', selector')
        BY <1>2, <2>1, <2>2, <3>1, Dispatched, FirstAsked
      <3>3. Shows(selector', ticked')
        BY <2>2, <3>1, StartShows
      <3> QED
        BY <3>2, <3>3, SelectorIsNext
    <2> QED
      BY <2>3, <2>4
  <1>12. CASE SelectorTick \/ SelectorTickAll
    <2>1. /\ screen = "selector" /\ UNCHANGED <<screen, flight, overtaken>>
          /\ selector'.rows = selector.rows /\ selector'.tool = selector.tool
          /\ selector'.env = selector.env
      BY <1>2, <1>12 DEF SelectorTick, SelectorTickAll, SelectorFits
    <2>2. CASE overtaken
      BY <2>1, <2>2, SelectorIsNext
    <2>3. CASE ~overtaken
      <3>1. Shows(selector', ticked')
        BY <1>1, <1>2, <1>12, <2>1, <2>3, TickShows, TickAllShows
      <3>2. Awaits(flight', selector')
        BY <1>1, <2>1, <2>3 DEF Awaits
      <3> QED
        BY <1>1, <2>1, <2>3, <3>1, <3>2, SelectorIsNext
    <2> QED
      BY <2>2, <2>3
  <1>13. CASE Quit
    BY <1>5, <1>13 DEF Quit
  <1>14. ASSUME NEW x \in flight, OnNavigate(x[2], flight \ {x}) PROVE SelectorInv'
    <2>1. Opens(x[2].to, x[2].tool, PreferredEnv, flight \ {x})
      BY <1>2, <1>14, Opening DEF OnNavigate
    <2> QED
      BY <1>3, <2>1, OpensSelector
  <1>15. ASSUME NEW x \in flight, OnCredentialsLoaded(x[2], flight \ {x}) PROVE SelectorInv'
    <2> DEFINE c == x[2]  rest == flight \ {x}
               to == IF c.tool # NoTool THEN "selector" ELSE c.to
               env == IF envs'["com"] = NoCred /\ envs'["gov"] # NoCred THEN "gov" ELSE "com"
    <2>1. Open(to, c.tool, env, rest)
      BY <1>15 DEF OnCredentialsLoaded
    <2> HIDE DEF to, env, c
    <2>2. Opens(to, c.tool, env, rest) /\ (overtaken \/ Asking(rest))
      BY <1>2, <1>3, <2>1, Opening
    <2> HIDE DEF rest
    <2> QED
      BY <2>2, OpensSelector
  <1>16. ASSUME NEW x \in flight, OnShowModal(x[2], flight \ {x}) PROVE SelectorInv'
    BY <1>5, <1>16 DEF OnShowModal
  <1>17. ASSUME NEW x \in flight, OnTools(x[2], flight \ {x}) PROVE SelectorInv'
    BY <1>4, <1>17 DEF OnTools
  <1>18. ASSUME NEW x \in flight, OnValidated(x[2], flight \ {x}) PROVE SelectorInv'
    <2> DEFINE rest == flight \ {x}
               n == Loaded(modal.env, x[2].cred, modal.returnTo, modal.pending)
    <2>1. n.kind # "listing"
      BY DEF Loaded
    <2>2. /\ flight' = rest \/ flight' = With(rest, n)
          /\ UNCHANGED <<screen, selector, ticked, overtaken>>
      BY <1>18 DEF OnValidated
    <2> HIDE DEF n
    <2>3. Adds(rest, With(rest, n), n)
      BY <1>2, Returned
    <2>4. \A y \in flight' : y[2].kind = "listing" => y \in flight
      BY <2>1, <2>2, <2>3, OtherAdded
    <2> QED
      BY <1>4, <2>2, <2>4
  <1>19. ASSUME NEW x \in flight, OnListing(x[2], flight \ {x}) PROVE SelectorInv'
    <2> DEFINE c == x[2]
    <2>1. /\ c.kind = "listing" /\ flight' = flight \ {x}
          /\ UNCHANGED <<screen, ticked, overtaken>> /\ c.env \in Envs
      BY <1>2, <1>19 DEF OnListing, Sound
    <2>2. CASE overtaken \/ screen # "selector"
      BY <1>5, <2>1, <2>2, SelectorIsNext
    <2>3. CASE ~overtaken /\ screen = "selector"
      <3>1. /\ c.tool = selector.tool /\ c.env = selector.env /\ selector.rows = <<>>
            /\ selector.selected = {} /\ ticked = {}
        BY <1>1, <2>1, <2>3 DEF Awaits, Shows
      <3>2. Asking(flight') /\ Awaits(flight', selector')
        BY <1>1, <2>1, <2>3 DEF Asking, Awaits
      <3>3. /\ selector'.selected = {} /\ selector'.tool = selector.tool
            /\ selector'.env = selector.env
            /\ \/ selector'.rows = <<>>
               \/ /\ selector'.shown = c.tool
                  /\ \E rows \in SetToSeqs(Listing(c.tool, c.env)) : selector'.rows = rows
        BY <1>2, <1>19, <2>3, <3>1 DEF OnListing, SelectorFits
      <3>4. selector'.rows # <<>> => /\ IsInjective(selector'.rows)
                                     /\ Range(selector'.rows) \subseteq Listing(c.tool, c.env)
        BY <2>1, <3>3, RowsOf
      <3>5. Shows(selector', ticked')
        BY <2>1, <3>1, <3>3, <3>4 DEF Shows
      <3> QED
        BY <3>2, <3>5, SelectorIsNext
    <2> QED
      BY <2>2, <2>3
  <1> QED
    BY <1>6, <1>7, <1>8, <1>9, <1>10, <1>11, <1>12, <1>13, <1>14, <1>15, <1>16, <1>17, <1>18, <1>19,
       Steps

\* What Enter would run is what the operator ticked, of the tool's platform and the
\* selector's environment, for any instances in any order of listing, as long as no
\* answer was overtaken.
THEOREM EnterRunsWhatWasTickedCorrect == Spec => []EnterRunsWhatWasTicked
  <1>1. Init => SelectorInv
    BY DEF Init, SelectorInv
  <1>2. Fits /\ SelectorInv /\ [Next]_vars => SelectorInv'
    BY SelectorStep
  <1>3. SelectorInv => EnterRunsWhatWasTicked
    <2> SUFFICES ASSUME SelectorInv, ~overtaken, screen = "selector"
                 PROVE  /\ SelectedIds = ticked
                        /\ ticked # {} => /\ selector.shown = selector.tool
                                          /\ ticked \subseteq Listing(selector.tool, selector.env)
      BY DEF EnterRunsWhatWasTicked
    <2>1. SelectedIds = ticked /\ SelectedIds \subseteq Range(selector.rows)
      BY DEF SelectorInv, SelectedIds, Range
    <2>2. ticked # {} => selector.rows # <<>>
      BY <2>1 DEF SelectedIds
    <2> QED
      BY <2>1, <2>2 DEF SelectorInv
  <1> QED
    BY <1>1, <1>2, <1>3, FitsAlways, PTL DEF Spec

-----------------------------------------------------------------------------
(* Validation.                                                             *)

\* ValidatedInv, of the credentials E, the commands f, the screen and the
\* environment of the modal.
Accepted(E) == \A e \in Envs : E[e] # NoCred => CredentialEnv[E[e]] = e

Vouched(c, scr, env) ==
  /\ c.kind = "loaded" => CredentialEnv[c.cred] = c.env
  /\ c.kind = "validate" /\ scr = "modal" => c.env = env

LEMMA ValidatedIs ==
  ValidatedInv <=> (~overtaken => /\ Accepted(envs)
                                  /\ \A x \in flight : Vouched(x[2], screen, modal.env))
  BY DEF ValidatedInv, ActiveMeansValidated, Accepted, Vouched, Has

LEMMA ValidatedIsNext ==
  (ValidatedInv <=> (~overtaken => /\ Accepted(envs)
                                   /\ \A x \in flight : Vouched(x[2], screen, modal.env)))'
  BY ValidatedIs, PTL

LEMMA AllVouched ==
  ASSUME NEW f, NEW g, NEW c, NEW scr, NEW env, Adds(f, g, c), Vouched(c, scr, env),
         \A x \in f : Vouched(x[2], scr, env)
  PROVE  \A x \in g : Vouched(x[2], scr, env)
  BY DEF Adds

\* Away from the modal, and in it with no question under way, only what is on its
\* way to be filed counts.
LEMMA VouchedAnew ==
  ASSUME NEW f, NEW scr, NEW env, NEW scr2, NEW env2, \A x \in f : Vouched(x[2], scr, env),
         scr2 # "modal" \/ ~Pending(f, {"validate", "loaded"})
  PROVE  \A x \in f : Vouched(x[2], scr2, env2)
  BY DEF Vouched, Pending

LEMMA OpensValidated ==
  ASSUME NEW rest, overtaken \/ \A x \in rest : Vouched(x[2], screen, modal.env),
         overtaken \/ Accepted(envs'),
         NEW to, to # "modal", NEW tool, NEW env, Opens(to, tool, env, rest)
  PROVE  ValidatedInv'
  <1>1. CASE overtaken'
    BY <1>1, ValidatedIsNext
  <1>2. CASE ~overtaken'
    <2>1. /\ ~overtaken /\ screen' = to
          /\ \/ flight' = rest \/ \E scope : Adds(rest, flight', ListTools(scope))
             \/ Adds(rest, flight', ListInstances(tool, env, envs'[env]))
      BY <1>2 DEF Opens
    <2>2. \A x \in rest : Vouched(x[2], to, modal'.env)
      BY <2>1, VouchedAnew
    <2>3. ASSUME NEW c, c.kind \in {"tools", "listing"}, Adds(rest, flight', c)
          PROVE  \A x \in flight' : Vouched(x[2], to, modal'.env)
      <3>1. Vouched(c, to, modal'.env)
        BY <2>3 DEF Vouched
      <3> QED
        BY <2>2, <2>3, <3>1, AllVouched
    <2>4. /\ \A scope : ListTools(scope).kind = "tools"
          /\ ListInstances(tool, env, envs'[env]).kind = "listing"
      BY DEF ListTools, ListInstances
    <2>5. \A x \in flight' : Vouched(x[2], to, modal'.env)
      <3>1. ASSUME NEW scope, Adds(rest, flight', ListTools(scope))
            PROVE  \A x \in flight' : Vouched(x[2], to, modal'.env)
        BY <2>3, <2>4, <3>1
      <3>2. ASSUME Adds(rest, flight', ListInstances(tool, env, envs'[env]))
            PROVE  \A x \in flight' : Vouched(x[2], to, modal'.env)
        BY <2>3, <2>4, <3>2
      <3> QED
        BY <2>1, <2>2, <3>1, <3>2
    <2> QED
      BY <2>1, <2>5, ValidatedIsNext
  <1> QED
    BY <1>1, <1>2

LEMMA ValidatedStep == ASSUME Fits, ValidatedInv, [Next]_vars PROVE ValidatedInv'
  <1>1. overtaken \/ (Accepted(envs) /\ \A x \in flight : Vouched(x[2], screen, modal.env))
    BY ValidatedIs
  <1>2. /\ Numbered(flight) /\ ModalFits(modal) /\ \A x \in flight : Sound(x[2])
        /\ envs \in [Envs -> Creds \cup {NoCred}]
    BY DEF Fits, FlightFits
  <1>3. \A x \in flight : overtaken \/ \A y \in flight \ {x} : Vouched(y[2], screen, modal.env)
    BY <1>1
  \* The credentials stay, and so do screen and environment or the questions are over.
  <1>4. ASSUME UNCHANGED envs, overtaken => overtaken',
               overtaken \/ overtaken' \/ \A x \in flight' : Vouched(x[2], screen', modal'.env)
        PROVE  ValidatedInv'
    BY <1>1, <1>4, ValidatedIsNext
  <1>5. ASSUME NEW c, c.kind \notin {"loaded", "validate"}, Adds(flight, flight', c),
               UNCHANGED <<screen, modal, envs>>, overtaken => overtaken'
        PROVE  ValidatedInv'
    <2>1. Vouched(c, screen, modal.env)
      BY <1>5 DEF Vouched
    <2>2. overtaken \/ \A x \in flight' : Vouched(x[2], screen, modal.env)
      BY <1>1, <1>5, <2>1, AllVouched
    <2> QED
      BY <1>4, <1>5, <2>2
  <1>6. CASE UNCHANGED vars
    BY <1>1, <1>4, <1>6 DEF vars
  <1>7. ASSUME NEW c, Asks(c) PROVE ValidatedInv'
    BY <1>5, <1>7 DEF Asks
  <1>8. CASE Edits
    BY <1>1, <1>4, <1>8 DEF Edits
  <1>9. CASE ModalToggle
    <2>1. /\ UNCHANGED <<screen, envs>> /\ \E late \in SUBSET Filing : flight' = Refiled(late)
          /\ overtaken' = (overtaken \/ Pending(flight, {"validate", "loaded"}))
      BY <1>9 DEF ModalToggle
    <2>2. CASE overtaken'
      BY <2>2, ValidatedIsNext
    <2>3. CASE ~overtaken'
      <3>1. \A x \in flight : Vouched(x[2], screen, modal'.env)
        BY <1>1, <2>1, <2>3, VouchedAnew
      <3>2. Filing = {}
        BY <2>1, <2>3 DEF Filing, Pending
      <3>3. flight' = flight
        BY <1>2, <2>1, <3>2, RefiledFlight
      <3> QED
        BY <1>4, <2>1, <2>3, <3>1, <3>3
    <2> QED
      BY <2>2, <2>3
  <1>10. CASE ModalSubmit
    <2> DEFINE c == Validate(modal.env, modal.typed)
    <2>1. c.kind = "validate" /\ c.env = modal.env /\ Dispatch(c)
      BY <1>10 DEF Validate, ModalSubmit
    <2>2. /\ modal'.env = modal.env /\ UNCHANGED <<screen, envs>>
          /\ overtaken => overtaken'
      BY <1>2, <1>10 DEF ModalSubmit, ModalFits
    <2> HIDE DEF c
    <2>3. Vouched(c, screen, modal.env)
      BY <2>1 DEF Vouched
    <2>4. overtaken \/ \A x \in flight' : Vouched(x[2], screen, modal.env)
      BY <1>1, <1>2, <2>1, <2>3, Dispatched, AllVouched
    <2> QED
      BY <1>4, <2>2, <2>4
  <1>11. CASE SelectorToggle
    <2> DEFINE e == Other(selector.env)  c == ListInstances(selector.tool, e, envs[e])
    <2>1. c.kind = "listing" /\ Dispatch(c)
      BY <1>11 DEF ListInstances, SelectorToggle
    <2> HIDE DEF c
    <2>2. Adds(flight, flight', c)
      BY <1>2, <2>1, Dispatched
    <2> QED
      BY <1>5, <1>11, <2>1, <2>2 DEF SelectorToggle
  <1>12. CASE SelectorTick \/ SelectorTickAll
    BY <1>1, <1>4, <1>12 DEF SelectorTick, SelectorTickAll
  <1>13. CASE Quit
    BY <1>4, <1>13 DEF Quit
  <1>14. ASSUME NEW x \in flight, OnNavigate(x[2], flight \ {x}) PROVE ValidatedInv'
    <2>1. Opens(x[2].to, x[2].tool, PreferredEnv, flight \ {x}) /\ UNCHANGED envs
      BY <1>2, <1>14, Opening DEF OnNavigate
    <2>2. x[2].to # "modal"
      BY <1>2, <1>14 DEF OnNavigate, Sound, Menus, Stubs
    <2> QED
      BY <1>1, <1>3, <2>1, <2>2, OpensValidated
  <1>15. ASSUME NEW x \in flight, OnCredentialsLoaded(x[2], flight \ {x}) PROVE ValidatedInv'
    <2> DEFINE c == x[2]  rest == flight \ {x}
               to == IF c.tool # NoTool THEN "selector" ELSE c.to
               env == IF envs'["com"] = NoCred /\ envs'["gov"] # NoCred THEN "gov" ELSE "com"
    <2>1. c.kind = "loaded" /\ envs' = [envs EXCEPT ![c.env] = c.cred] /\ Open(to, c.tool, env, rest)
      BY <1>15 DEF OnCredentialsLoaded
    <2>2. to # "modal"
      BY <1>2, <2>1 DEF Sound, Menus
    <2>3. overtaken \/ Accepted(envs')
      <3>1. overtaken \/ CredentialEnv[c.cred] = c.env
        BY <1>1, <2>1 DEF Vouched
      <3> QED
        BY <1>1, <1>2, <2>1, <3>1 DEF Accepted
    <2> HIDE DEF to, env, c
    <2>4. /\ Opens(to, c.tool, env, rest)
          /\ overtaken \/ \A y \in rest : Vouched(y[2], screen, modal.env)
      BY <1>2, <1>3, <2>1, Opening
    <2> HIDE DEF rest
    <2> QED
      BY <2>2, <2>3, <2>4, OpensValidated
  <1>16. ASSUME NEW x \in flight, OnShowModal(x[2], flight \ {x}) PROVE ValidatedInv'
    <2> DEFINE rest == flight \ {x}
    <2>1. /\ UNCHANGED envs /\ flight' = rest
          /\ overtaken' = (overtaken \/ Pending(rest, {"validate", "loaded"}))
      BY <1>16 DEF OnShowModal
    <2>2. overtaken \/ \A y \in rest : Vouched(y[2], screen, modal.env)
      BY <1>3
    <2> HIDE DEF rest
    <2>3. overtaken' \/ \A y \in rest : Vouched(y[2], screen', modal'.env)
      BY <2>1, <2>2, VouchedAnew
    <2> QED
      BY <1>4, <2>1, <2>3
  <1>17. ASSUME NEW x \in flight, OnTools(x[2], flight \ {x}) PROVE ValidatedInv'
    BY <1>3, <1>4, <1>17 DEF OnTools
  <1>18. ASSUME NEW x \in flight, OnValidated(x[2], flight \ {x}) PROVE ValidatedInv'
    <2> DEFINE c == x[2]  rest == flight \ {x}
               n == Loaded(modal.env, c.cred, modal.returnTo, modal.pending)
    <2>1. c.kind = "validate" /\ UNCHANGED <<screen, envs, overtaken>> /\ modal'.env = modal.env
      BY <1>2, <1>18 DEF OnValidated, ModalFits
    <2>2. \/ flight' = rest
          \/ screen = "modal" /\ CredentialEnv[c.cred] = c.env /\ flight' = With(rest, n)
      BY <1>18 DEF OnValidated
    <2>3. screen = "modal" => overtaken \/ c.env = modal.env
      BY <1>1, <2>1 DEF Vouched
    <2>4. n.kind = "loaded" /\ n.cred = c.cred /\ n.env = modal.env
      BY DEF Loaded
    <2>5. /\ Adds(rest, With(rest, n), n)
          /\ overtaken \/ \A y \in rest : Vouched(y[2], screen, modal.env)
      BY <1>2, <1>3, Returned
    <2> HIDE DEF n, rest, c
    <2>6. CASE flight' = rest
      BY <1>4, <2>1, <2>5, <2>6
    <2>7. CASE screen = "modal" /\ CredentialEnv[c.cred] = c.env /\ flight' = With(rest, n)
      <3>1. overtaken \/ Vouched(n, screen, modal.env)
        BY <2>3, <2>4, <2>7 DEF Vouched
      <3>2. overtaken \/ \A y \in flight' : Vouched(y[2], screen, modal.env)
        BY <2>5, <2>7, <3>1, AllVouched
      <3> QED
        BY <1>4, <2>1, <3>2
    <2> QED
      BY <2>2, <2>6, <2>7
  <1>19. ASSUME NEW x \in flight, OnListing(x[2], flight \ {x}) PROVE ValidatedInv'
    BY <1>3, <1>4, <1>19 DEF OnListing
  <1> QED
    BY <1>6, <1>7, <1>8, <1>9, <1>10, <1>11, <1>12, <1>13, <1>14, <1>15, <1>16, <1>17, <1>18, <1>19,
       Steps

\* What is filed for an environment is what STS accepted for it, however often the
\* operator comes back to the modal, as long as no answer was overtaken.
THEOREM ActiveMeansValidatedCorrect == Spec => []ActiveMeansValidated
  <1>1. Init => ValidatedInv
    BY DEF Init, ValidatedInv, ActiveMeansValidated, Has
  <1>2. Fits /\ ValidatedInv /\ [Next]_vars => ValidatedInv'
    BY ValidatedStep
  <1>3. ValidatedInv => ActiveMeansValidated
    BY DEF ValidatedInv
  <1> QED
    BY <1>1, <1>2, <1>3, FitsAlways, PTL DEF Spec

=============================================================================

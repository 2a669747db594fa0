----------------------------- MODULE MCConsole -----------------------------
(***************************************************************************)
(* Console for TLC: two accounts, an instance list that repeats an         *)
(* instance and one that spans two regions, one request of every kind and  *)
(* more where its arguments matter.                                        *)
(***************************************************************************)
EXTENDS Console, TLC

Pair(a, g) == [account |-> a, region |-> g]
Target(i, p) == [id |-> i, pair |-> p]

East == Pair("111", "us-east-1")
West == Pair("111", "us-west-2")

MCCredentialEnv == "c1" :> "com" @@ "c2" :> "gov"
MCAccountOf     == "c1" :> "111" @@ "c2" :> "222"
MCInventory     == "i1" :> East @@ "i2" :> West
MCFirstChanges  == "CHG1" :> <<Target("i1", East)>>

\* A user who has worked here before, and one who has not.
MCFirstCookies ==
  {NoSession, [key |-> "c1", env |-> "com", account |-> "111", change |-> "CHG1"]}

Twice == <<Target("i3", East), Target("i3", East)>>
Mixed == <<Target("i1", East), Target("i2", West)>>

SessionRequests ==
  {[Blank EXCEPT !.kind = k, !.number = "CHG2"] : k \in {"load", "create"}}
  \cup {[Blank EXCEPT !.kind = "save", !.number = n, !.list = Mixed] : n \in {"CHG1", "CHG2"}}
  \cup {[Blank EXCEPT !.kind = k, !.number = "CHG1", !.list = Twice] : k \in {"manual", "csv"}}
  \cup {[Blank EXCEPT !.kind = "csv", !.number = "CHG2"]}
  \cup {[Blank EXCEPT !.kind = "credentials", !.key = "c2", !.env = e] : e \in Envs}
  \cup {[Blank EXCEPT !.kind = k] : k \in {"clear", "signOut"}}

StartRequests ==
  {[Blank EXCEPT !.kind = "qcStep"], [Blank EXCEPT !.kind = "qcPost", !.ids = <<"i1">>]}
  \cup {[Blank EXCEPT !.kind = "rhsa", !.ids = <<"i2", "i3">>]}
  \cup {[Blank EXCEPT !.kind = "scriptRunner", !.keep = k, !.ids = <<"i1">>] : k \in BOOLEAN}
  \cup {[Blank EXCEPT !.kind = k, !.ids = <<"i1">>, !.account = "111",
                      !.region = "us-west-2"] : k \in {"sft", "tool"}}
  \cup {[Blank EXCEPT !.kind = "exec", !.id = i, !.ids = <<"i1">>, !.account = "111",
                      !.region = "us-west-2"] : i \in {0, 1}}
  \cup {[Blank EXCEPT !.kind = "deleteScript", !.id = 2], [Blank EXCEPT !.kind = "createScript"]}

MCRequests == SessionRequests \cup StartRequests
=============================================================================

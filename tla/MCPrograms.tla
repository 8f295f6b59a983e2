---------------------------- MODULE MCPrograms -----------------------------
(* Programs that must come to an end, each by itself: an apply and another *)
(* one with a reconcile, a login, and two commands that select, use and    *)
(* replace a profile.  A behaviour is of one kind; the variables of the    *)
(* others keep their first value.  No symmetry: liveness is checked.       *)
EXTENDS OperatorWrite, TLC

CONSTANTS None, Logins, Procs

VARIABLES program,
    main, cancelled, listening, once, channel, handlers, closing, received,
    approved, presented, reached, exit, requests,
    registry, keychain, file, edits, begun, held, proc

loginVars == <<main, cancelled, listening, once, channel, handlers, closing, received,
               approved, presented, reached, exit, requests>>
profileVars == <<registry, keychain, file, edits, begun, held, proc>>

MCResult == [state : Settled \cup Unsettled, rid : BOOLEAN]

Browser == INSTANCE LoopbackLogin WITH MaxRequests <- 3, result <- channel

Names == {1, 2}
Topologies == {"reader", "editor"}

Commands ==
    [op : {"set"}, slots : {s \in [{"read", "write"} -> Names] : s["read"] # s["write"]}]
    \cup [op : {"use"}, role : {"read"}]
    \cup [op : {"save"}, name : {1}, topology : Topologies, replace : {TRUE}]
    \cup [op : {"login"}, name : Names] \cup [op : {"logout"}, name : {1}]

(* The person saves, once, a default of the profile that is replaced.      *)
Document ==
    <<[field |-> "version", value |-> 1],
      [field |-> "read", value |-> [name |-> 1, identity |-> <<1, "editor">>]]>>

Profiles == INSTANCE SavedDefaults WITH
    Supports <- [t \in Topologies |-> IF t = "editor" THEN {"read", "write"} ELSE {"read"}],
    Documents <- {Document}, MaxEdits <- 1, MaxCommands <- 4, TimeOuts <- FALSE

MCInit ==
    /\ program \in {"write", "login", "profiles"}
    /\ Init /\ Browser!Init /\ Profiles!Init
    /\ program # "write" => kind = "issue.create"
    /\ program # "profiles" => registry = [n \in Names |-> [topology |-> "reader", bound |-> FALSE]]

Runs(this, action) == program = this /\ action

MCNext ==
    /\ UNCHANGED program
    /\ \/ Runs("write", Next) /\ UNCHANGED <<loginVars, profileVars>>
       \/ Runs("login", Browser!Next) /\ UNCHANGED <<vars, profileVars>>
       \/ Runs("profiles", Profiles!Next) /\ UNCHANGED <<vars, loginVars>>

(* The fairness that each module states, of the program that runs.         *)
MCSpec ==
    /\ MCInit /\ [][MCNext]_<<program, vars, loginVars, profileVars>>
    /\ \A p \in Apply : WF_vars(Runs("write", ApplyStep(p)))
    /\ \A p \in Reconcile : WF_vars(Runs("write", ReconcileStep(p)))
    /\ \A l \in Logins :
         /\ WF_loginVars(Runs("login", Browser!Main(l))) /\ WF_loginVars(Runs("login", Browser!Send(l)))
         /\ WF_loginVars(Runs("login", Browser!Closing(l))) /\ WF_loginVars(Runs("login", Browser!Cancel(l)))
    /\ \A p \in Procs : WF_profileVars(Runs("profiles", Profiles!Step(p)))

-----------------------------------------------------------------------------
(* A login that started comes back, though the browser may never call, and *)
(* none of its handlers is left waiting (LoginOAuth, Wait and Close).      *)
LoginEnds == Browser!LoginReturns /\ Browser!HandlersEnd

(* Without the time limit on locks every command still ends: no two of     *)
(* them ever wait for each other (the order of the profile locks).         *)
CommandsEnd == Profiles!CommandsEnd
=============================================================================

--------------------------- MODULE MCSavedDefaults --------------------------
(* Any two commands, or a longer history of fewer commands about one       *)
(* profile.  Two read-only topologies differ in what is not a role.        *)
EXTENDS SavedDefaults, TLC

VARIABLE history

MCNames == {1, 2}

Symmetry == Permutations(Procs)

MCTopologies == {"reader", "watcher", "editor"}

MCSupports == [t \in MCTopologies |-> IF t = "editor" THEN Roles ELSE {"read"}]

Selections == {s \in [Roles -> MCNames \cup {None}] : \E r \in Roles : s[r] # None}

OneRead == {[r \in {"read"} |-> n] : n \in MCNames}

MCCommands ==
    [op : {"set"}, slots : Selections]
    \cup [op : {"set-readonly"}, slots : OneRead]
    \cup [op : {"clear"}, roles : (SUBSET Roles) \ {{}}]
    \cup [op : {"save"}, name : MCNames, topology : MCTopologies, replace : BOOLEAN]
    \cup [op : {"admit"}, name : MCNames, topology : MCTopologies]
    \cup [op : {"remove", "drop", "login", "logout"}, name : MCNames]
    \cup [op : {"use"}, role : Roles]

Version == [field |-> "version", value |-> 1]

Slot(r, name, identity) == [field |-> r, value |-> [name |-> name, identity |-> identity]]

MCDocuments ==
    { <<Version, Slot("read", 1, <<1, "reader">>), Slot("read", 2, <<2, "editor">>)>>,
      <<[field |-> "version", value |-> 2]>>,
      <<Version, Slot("read", 1, <<1, "reader">>), Slot("write", 1, <<1, "reader">>)>>,
      <<Slot("write", 2, <<1, "editor">>), Version>>,
      <<Version, Slot("write", 2, <<2, "editor">>)>> }

(* In the longer history a default is set and used, its profile is         *)
(* replaced, logged out and in again, and the file is edited.              *)
ReplacementCommands ==
    [op : {"set"}, slots : {s \in Selections : s["read"] # s["write"]}]
    \cup [op : {"use"}, role : {"read"}]
    \cup [op : {"save"}, name : {1}, topology : {"reader", "editor"}, replace : {TRUE}]
    \cup [op : {"login"}, name : MCNames] \cup [op : {"logout"}, name : {1}]

ReplacementDocument == <<Version, Slot("read", 1, <<1, "editor">>)>>

MCInit ==
    /\ Init /\ history \in {"short", "long"}
    /\ history = "long" => registry[1].topology = "editor" /\ registry[2].topology = "reader"

MCNext ==
    /\ Next /\ UNCHANGED history
    /\ history = "short" => begun' <= 2
    /\ history = "long" =>
          /\ \A p \in Procs : proc'[p].cmd \in ReplacementCommands \cup {None}
          /\ edits' > edits => file' = ReplacementDocument

MCSpec == MCInit /\ [][MCNext]_<<vars, history>>
=============================================================================

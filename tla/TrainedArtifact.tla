---------------------------- MODULE TrainedArtifact ----------------------------
(***************************************************************************)
(* moe_experiment_artifacts.py: a trained arm is staged aside, then its    *)
(* directory is claimed and its model, report and index are linked into    *)
(* it, the index last.  Publishers race for one destination, are killed or *)
(* fail anywhere, and readers load at any time.                            *)
(***************************************************************************)
EXTENDS Integers, Sequences, FiniteSets, SequencesExt

CONSTANTS
  NoFile,
  Publishers, Readers,
  MaxPublications, \* bound: publications begun
  MaxLoads         \* bound: loads begun

Arms == 1..MaxPublications

ASSUME ArtifactAssumption == MaxPublications \in Nat /\ NoFile \notin Nat

VARIABLES
  destination, \* [claimed, and per name the arm its file is of]
  publisher,   \* [at, arm]
  reader,      \* [at, index, report]
  publications, loads

artifactVars == <<destination, publisher, reader, publications, loads>>

Names == {"model", "report", "index"}

\* Variant: the marker comes before what it marks.
IndexFirst == <<"index", "model", "report">>

LinkOrder == <<"model", "report", "index">>

-------------------------------------------------------------------------------
(* publish_moe_experiment                                                     *)

Stands(p, at) == publisher' = [publisher EXCEPT ![p].at = at]

\* The destination is looked at before the measurements, which take long.
BeginPublication(p) ==
  /\ publisher[p].at = "away" /\ publications < MaxPublications
  /\ publications' = publications + 1
  /\ publisher' = [publisher EXCEPT ![p] =
       [at |-> IF destination.claimed THEN "away" ELSE "staged", arm |-> publications + 1]]
  /\ UNCHANGED <<destination, reader, loads>>

\* mkdir claims an unused path, or raises.
Claim(p) ==
  /\ publisher[p].at = "staged"
  /\ Stands(p, IF destination.claimed THEN "away" ELSE "linking")
  /\ destination' = [destination EXCEPT !.claimed = TRUE]
  /\ UNCHANGED <<reader, publications, loads>>

LinkNext(p) ==
  /\ publisher[p].at = "linking"
  /\ LET present == {n \in Names : destination.files[n] # NoFile}
         name == LinkOrder[Cardinality(present) + 1]
     IN /\ destination' = [destination EXCEPT !.files[name] = publisher[p].arm]
        /\ Stands(p, IF Cardinality(present) + 1 = Len(LinkOrder) THEN "flushing" ELSE "linking")
  /\ UNCHANGED <<reader, publications, loads>>

Published(p) ==
  /\ publisher[p].at = "flushing"
  /\ Stands(p, "published")
  /\ UNCHANGED <<destination, reader, publications, loads>>

\* A kill, a failing call, or a check of the staged files that fails.
Abandon(p) ==
  /\ publisher[p].at \in {"staged", "linking", "flushing"}
  /\ Stands(p, "away")
  /\ UNCHANGED <<destination, reader, publications, loads>>

-------------------------------------------------------------------------------
(* load_moe_experiment_artifact: each file at its own time                    *)

BeginLoad(r) ==
  /\ reader[r].at \in {"away", "loaded", "rejected"} /\ loads < MaxLoads
  /\ loads' = loads + 1
  /\ reader' = [reader EXCEPT ![r] = [at |-> "index", index |-> NoFile, report |-> NoFile]]
  /\ UNCHANGED <<destination, publisher, publications>>

\* A file that is missing, or of another arm than the index, rejects the load.
Read(r, name, next) ==
  LET file == destination.files[name]
      index == IF name = "index" THEN file ELSE reader[r].index
  IN /\ reader[r].at = name
     /\ reader' = [reader EXCEPT
          ![r].at = IF file # NoFile /\ file = index THEN next ELSE "rejected",
          ![r].index = index,
          ![r].report = IF name = "report" THEN file ELSE @]
     /\ UNCHANGED <<destination, publisher, publications, loads>>

ArtifactInit ==
  /\ destination = [claimed |-> FALSE, files |-> [n \in Names |-> NoFile]]
  /\ publisher = [p \in Publishers |-> [at |-> "away", arm |-> 0]]
  /\ reader = [r \in Readers |-> [at |-> "away", index |-> NoFile, report |-> NoFile]]
  /\ publications = 0 /\ loads = 0

ArtifactNext ==
  \/ \E p \in Publishers :
       BeginPublication(p) \/ Claim(p) \/ LinkNext(p) \/ Published(p) \/ Abandon(p)
  \/ \E r \in Readers :
       BeginLoad(r) \/ Read(r, "index", "report") \/ Read(r, "report", "model")
         \/ Read(r, "model", "loaded")

Over ==
  /\ publications = MaxPublications /\ loads = MaxLoads
  /\ \A p \in Publishers : publisher[p].at \in {"away", "published"}
  /\ \A r \in Readers : reader[r].at \in {"away", "loaded", "rejected"}

ArtifactSpec == ArtifactInit /\ [][ArtifactNext]_artifactVars

-------------------------------------------------------------------------------
(* Properties                                                                 *)

\* The index is the commit: a load that found one ends with the files of one
\* publication and is never refused, whatever goes on beside it, and what was
\* published stays although others want the same place.
LoadsAreWhole ==
  /\ \A r \in Readers :
       /\ reader[r].at = "loaded" => /\ reader[r].report = reader[r].index
                                     /\ destination.files["model"] = reader[r].index
       /\ reader[r].at = "rejected" => reader[r].index = NoFile
  /\ \A p \in Publishers : publisher[p].at = "published" =>
       \A n \in Names : destination.files[n] = publisher[p].arm

================================================================================

------------------------------- MODULE MCRaft -------------------------------
(* Instances of Raft for TLC.                                              *)
EXTENDS Raft, TLC

CONSTANTS s1, s2, s3

\* the elections of a run
FirstTerm == Server \X {1}
OneCandidate == {<<s1, 1>>}
TwoCandidates == {<<s1, 1>>, <<s2, 1>>}
TwoTerms == Server \X {1, 2}
Succession == {<<s1, 1>>, <<s2, 2>>}
Return == {<<s1, 1>>, <<s2, 2>>, <<s1, 3>>}

\* peers with the same rights are interchangeable, and so are the commands
Symmetry ==
  {p \in Permutations(Server) :
     /\ {p[i] : i \in Crashable} = Crashable
     /\ {p[i] : i \in Readers} = Readers
     /\ {<<p[e[1]], e[2]>> : e \in Elections} = Elections}
  \cup Permutations(Command)
============================================================================

------------------------------ MODULE MCIntake ------------------------------
EXTENDS Intake, TLC

Original == [credential |-> "site", submission |-> "s1", key |-> "k1", request |-> "q1",
             checksum |-> "c1", files |-> 1, twins |-> FALSE]
Repeat == [Original EXCEPT !.request = "q2"]
Edited == [Original EXCEPT !.submission = "s3", !.request = "q3", !.checksum = "c3",
                              !.files = 0]

\* A second site of the company counts its submissions from the start as well.
SecondSite == [Original EXCEPT !.credential = "shop", !.checksum = "c4", !.files = 0]
TwoEqualFiles == [Original EXCEPT !.files = 2, !.twins = TRUE]

MCScenarios ==
    {"first" :> Original @@ "second" :> Repeat @@ "third" :> m : m \in {Repeat, Edited, SecondSite}}
    \cup {"first" :> TwoEqualFiles @@ "second" :> TwoEqualFiles @@ "third" :> Edited,
          "first" :> [Original EXCEPT !.files = 2] @@ "second" :> SecondSite @@ "third" :> Edited}
=============================================================================

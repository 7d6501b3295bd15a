----------------------------- MODULE MCRagAnswers -----------------------------
(* Two files, one of which is being replaced in the index (a1 is a point of the *)
(* old version, a2 of the new one), and a point of another user.                *)
EXTENDS RagAnswers, TLC

CONSTANTS r1, r2, a1, a2, b1, b2, x1, f1, f2

MCFileOf == a1 :> f1 @@ a2 :> f1 @@ b1 :> f2 @@ b2 :> f2 @@ x1 :> f1
MCDocOf  == a1 :> 1 @@ a2 :> 2 @@ b1 :> 3 @@ b2 :> 3 @@ x1 :> 4
MCScore  == a1 :> 2 @@ a2 :> 2 @@ b1 :> 1 @@ b2 :> 1 @@ x1 :> 2
MCLength == a1 :> 1 @@ a2 :> 4 @@ b1 :> 3 @@ b2 :> 2 @@ x1 :> 1
MCSolid  == a1 :> {1} @@ a2 :> {1, 4} @@ b1 :> {1, 2, 3} @@ b2 :> {1, 2} @@ x1 :> {1}
MCQuestions == r1 :> {[token |-> "right", files |-> <<f2, f1>>, compares |-> c, topK |-> 2] : c \in BOOLEAN}
                    \cup {[token |-> t, files |-> <<>>, compares |-> FALSE, topK |-> 1] : t \in {"right", "wrong", "unset"}}
                    \cup {[token |-> "right", files |-> <<f1, f1>>, compares |-> TRUE, topK |-> 1]}
            @@ r2 :> {[token |-> "right", files |-> <<f2>>, compares |-> TRUE, topK |-> 1]}
Answer(text, declared) == [status |-> "answered", text |-> text, declared |-> declared]
MCReplies == {Answer(<<1>>, <<1>>), Answer(<<2, 1, 2>>, <<2, 1>>), Answer(<<2>>, <<2>>),
              Answer(<<2, 1>>, <<1, 2>>), Answer(<<3>>, <<3>>), Answer(<<>>, <<1>>),
              [status |-> "insufficient_evidence", text |-> <<>>, declared |-> <<>>],
              [status |-> "insufficient_evidence", text |-> <<>>, declared |-> <<1>>],
              [status |-> "malformed", text |-> <<1>>, declared |-> <<1>>]}

=============================================================================

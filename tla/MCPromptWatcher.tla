-------------------------- MODULE MCPromptWatcher --------------------------
(* Small instances of PromptWatcher: a command with two options, an edit    *)
(* with three whose path the screen shortens, and a question.  In the first *)
(* one the edit's refusal is worded in a way that cannot be read.           *)
EXTENDS PromptWatcher, TLC

MCScreenSig  == [bash |-> "ls", edit |-> "a.txt", ask |-> "q"]
MCLocalSig   == [bash |-> "ls?", edit |-> "a.txt?", ask |-> "q?"]
MCLogSig     == [bash |-> "ls", edit |-> "/w/a.txt", ask |-> "q"]
MCLayout     == [bash |-> (1 :> "yes" @@ 2 :> "no"),
                 edit |-> (1 :> "yes" @@ 2 :> "always" @@ 3 :> "no"),
                 ask  |-> (1 :> "yes" @@ 2 :> "no")]
MCUnreadable == [MCLayout EXCEPT !.edit = (1 :> "yes" @@ 2 :> "always" @@ 3 :> "other")]
=============================================================================

---------------------------- MODULE MCOrderFlow ----------------------------
(* Overlapping handlings of one customer's messages. *)
EXTENDS OrderFlow, TLC

\* One text per way the code can take: too short for anything, a name, an
\* address, a phone number, an intent as short and as long as it gets, and the
\* two words that do not answer a question.
MCTexts == {{}, {"name"}, {"name", "address"}, {"name", "address", "phone"},
            {"intent", "name"}, {"intent", "name", "address", "phone"},
            {"cancel", "name"}, {"products", "name"}}

Alike == Permutations(Handlers)
=============================================================================

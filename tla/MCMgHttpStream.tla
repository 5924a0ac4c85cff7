----------------------------- MODULE MCMgHttpStream -----------------------------
(* Values for TLC: what peers send in each instance. *)
EXTENDS MgHttpStream

\* The sums of the first elements of a sequence.
Sums(s) == [i \in DOMAIN s |-> FoldLeft(+, 0, SubSeq(s, 1, i))]

M(kind, sizes, from) == [kind |-> kind, ends |-> Sums(sizes), from |-> from]
Get      == M("request", <<0>>, 1)
Upgraded == M("upgrade", <<0>>, 1)
Session(m, deletes, ahead) ==
    [msgs |-> m, starts |-> <<0>> \o Sums([k \in DOMAIN m |-> Length(m[k])]),
     deletes |-> deletes, ahead |-> ahead]

Requests ==
    {Session(<<M("request", <<2>>, 1), M("chunked", <<2, 1, 0>>, 1), Get,
               M("request", <<2>>, 1)>>, {FALSE}, "never"),
     Session(<<M("chunked", <<2, 1, 0>>, 1), M("open", <<2>>, 1)>>, BOOLEAN, "never"),
     Session(<<M("chunked", <<2, 1, 0>>, 1), M("chunked", <<1, 1, 0>>, 1)>>, {TRUE}, "never"),
     Session(<<Get, M("request", <<2>>, 1), M("request", <<1>>, 1), Get>>, {FALSE}, "always")}

Dialogues ==
    {Session(<<Get, Upgraded, M("text", <<2>>, 1), M("text", <<1, 0, 1>>, 1),
               M("ping", <<1>>, 1), M("close", <<1>>, 1)>>, {FALSE}, "frames"),
     Session(<<Upgraded, M("text", <<1, 1>>, 8), M("text", <<2>>, 8)>>,
             {FALSE}, "frames"),
     Session(<<Upgraded, M("text", <<2, 1>>, 7), M("close", <<1>>, 1)>>,
             {FALSE}, "never"),
     Session(<<M("chunked", <<0>>, 1), Upgraded, M("ping", <<0>>, 1), M("text", <<0, 0>>, 1)>>,
             {TRUE}, "frames")}

Peers == Requests \cup Dialogues

\* The theorems are about these.
ASSUME PeersAreCareful == \A s \in Peers : Careful(s)

\* This one is not careful.
TwoChunked ==
    {Session(<<M("chunked", <<2, 1, 0>>, 1), M("chunked", <<1, 0>>, 1)>>, {FALSE}, "never")}
===============================================================================

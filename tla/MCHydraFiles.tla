---------------------------- MODULE MCHydraFiles ----------------------------
(* HydraFiles on small sets of texts. *)
EXTENDS HydraFiles, TLC

CONSTANTS
    BlockPorts,     \* ports of blocks, "" for none
    DaysOfWeek      \* days weekly schedules name

Host(a, p) == [ip |-> a, port |-> p]
Sep(c) == [ip |-> c, port |-> ""]
A == Host("a", "")
B == Host("b", "22")
ListTexts == {<<A>>, <<A, Sep(","), B>>, <<B, Sep(" "), A>>, <<A, Sep(","), Sep(" "), B>>,
              <<A, Sep(" "), Sep(","), B, Sep(","), A>>, <<A, Sep(",")>>, <<Sep(" "), A>>}
MCHosts == {[type |-> "list", text |-> t] : t \in ListTexts}
           \cup {[type |-> "block", text |-> <<Host("net", p)>>] : p \in BlockPorts}

MCServices == {<<"ssh">>, <<"ssh", "ftp">>, <<"ftp", "ssh", "">>, <<"ssh", "">>, <<"ssh", "", "ftp">>,
               <<"">>, <<"smtp">>}
MCFiles == [one |-> <<"w1", "nl">>, open |-> <<"w2">>, two |-> <<"w3", "nl", "w4">>, empty |-> <<>>]
MCLogins == {<<"one">>, <<"open", "one">>, <<"two", "open">>, <<"empty", "two">>, <<"empty">>,
             <<"one", "missing">>}

First == [year |-> 1, month |-> 1, day |-> "31"]
NoFirst == [year |-> 0, month |-> 0, day |-> "0"]
Sched(t, l) == [type |-> t, first |-> First, list |-> l]
MCSchedules ==
    {[type |-> "none", first |-> NoFirst, list |-> <<>>], Sched("once", <<>>), Sched("daily", <<>>),
     Sched("other", <<>>)}
    \cup {Sched("weekly", l) : l \in {<<d>> : d \in DaysOfWeek} \cup {<<d, e>> : d, e \in DaysOfWeek}}
    \cup {Sched("monthly", l) : l \in {<<"1">>, <<"-1">>, <<"1", "28">>, <<"30", "-1">>,
                                     <<"28", "31", "-1">>, <<"-1", "1">>, <<"28", "-1", "30">>}}

\* The ends of a long and of a short month.
Lengths == <<31, 28>>
Numbers == <<"1", "27", "28", "30", "31">>
Values == <<1, 27, 28, 30, 31>>
MCDates ==
    {[year |-> y, month |-> m, day |-> Numbers[i], last |-> Values[i] = Lengths[m], wday |-> w] :
        y \in 1..2, m \in 1..2, i \in 1..5, w \in {"SU", "MO", "TU", "WE", "TH", "FR", "SA"}}

=============================================================================

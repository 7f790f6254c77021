----------------------------- MODULE HydraFiles -----------------------------
(***************************************************************************)
(* What becomes of the text in a request to create a hydra task: the       *)
(* client checks it and rewrites the hosts, the daemon checks it again,    *)
(* makes the login file, the file of hosts and the cron file of it, and a  *)
(* started runner makes the command line of hydra, once, which it runs for *)
(* each service in turn.                                                   *)
(*                                                                         *)
(* One request at a time.  A list in the text is the sequence of what      *)
(* stands between its commas; hosts still have their separators.  What     *)
(* HydraTask adds is left out here: failing writes, crashes, stops.  The   *)
(* password file is made as the login file is.                             *)
(***************************************************************************)
EXTENDS Naturals, Sequences, SequencesExt

CONSTANTS
    HostTexts,      \* hosts as clients write them: hosts_type and text
    ServiceTexts,   \* lists of services
    KnownServices,  \* SYS_SERVICE_LIST
    OptTexts,       \* options, "" for none
    LoginTexts,     \* lists of template files
    Files,          \* the template files: words and line ends, by name
    Schedules,      \* schedule_type, first day and list
    Dates           \* the days looked at

\* In an argument vector two words are not text: the pointer NULL and the buffer of
\* the service.
Null == "NULL"
Word == STRING \ {Null, "service"}
HostRec == [ip : Word, port : Word]

LastDay == "-1"    \* in a list of days of a month

\* A line of a file is one word or empty.
WordsApart(f) == \A i \in 1..Len(f) - 1 : f[i] # "nl" => f[i + 1] = "nl"

ASSUME HydraFilesAssumption ==
    /\ HostTexts \subseteq [type : STRING, text : Seq(HostRec)]
    /\ ServiceTexts \subseteq Seq(STRING)
    /\ OptTexts \subseteq Word
    /\ LoginTexts \subseteq Seq(STRING)
    /\ \A f \in DOMAIN Files : Files[f] \in Seq(STRING) /\ WordsApart(Files[f])
    /\ Schedules \subseteq [type : STRING, first : [year : Nat, month : Nat, day : STRING],
                            list : Seq(STRING)]
    /\ \A d \in Dates : d.day # LastDay /\ (d.last => d.day \in {"28", "29", "30", "31"})

VARIABLES
    stage,      \* how far the request has come
    req,        \* the request, as rewritten on its way
    asked,      \* history: the request as the client wrote it
    login,      \* the login file
    ipList,     \* the file of hosts
    cron,       \* the lines of the cron file
    params,     \* the argument vector
    rest,       \* m_services from the runner's place on
    ran         \* history: the command lines and output files of the hydra processes

vars == <<stage, req, asked, login, ipList, cron, params, rest, ran>>

Requests == [hosts : HostTexts, services : ServiceTexts, opts : OptTexts,
             logins : LoginTexts, sched : Schedules]

Failed == <<>>     \* of a conversion: every good result has something in it

Init ==
    /\ stage = "sent"
    /\ req \in Requests
    /\ asked = req
    /\ login = <<>>
    /\ ipList = <<>>
    /\ cron = <<>>
    /\ params = <<>>
    /\ rest = <<>>
    /\ ran = <<>>

----------------------------------------------------------------------------
(* Texts.  A host is a record; a separator is the string it is written as. *)

Separators == [ip : {",", " "}, port : {""}]
IsSep(x) == x \in Separators
Comma == [ip |-> ",", port |-> ""]

\* A text without what is in S.
Without(t, S) ==
    LET kept[n \in 0..Len(t)] ==
            IF n = 0 THEN <<>>
            ELSE IF t[n] \in S THEN kept[n - 1] ELSE Append(kept[n - 1], t[n])
    IN  kept[Len(t)]

\* getNextToken up to the end: what follows the last comma counts only if it is
\* not empty.
Tokens(list) ==
    IF list # <<>> /\ Last(list) = "" THEN Front(list) ELSE list

\* Variant: every separator becomes a comma.
Escaped_Each(t) ==
    LET One(acc, x) == IF IsSep(x) THEN Append(acc, Comma)
                       ELSE Append(acc, x)
    IN  FoldLeft(One, <<>>, t)

\* The copy made so far and the next of the text: of a run of separators the
\* first becomes a comma, unless it stands in front.
CopyNext(copy, x) ==
    IF ~ IsSep(x) THEN Append(copy, x)
    ELSE IF copy = <<>> \/ IsSep(Last(copy)) THEN copy
    ELSE Append(copy, Comma)

\* Runs of separators become one comma, none at either end.
Escaped(t) ==
    LET copied[n \in 0..Len(t)] == IF n = 0 THEN <<>> ELSE CopyNext(copied[n - 1], t[n])
        copy == copied[Len(t)]
    IN  IF copy # <<>> /\ IsSep(Last(copy)) THEN Front(copy) ELSE copy

\* Hosts with separators between them: any for the client, one comma each for
\* the daemon; a block stands alone.
HostsAlternate(t) ==
    /\ t # <<>>
    /\ ~ IsSep(Head(t)) /\ ~ IsSep(Last(t))
    /\ \A i \in 1..Len(t) - 1 : IsSep(t[i]) \/ IsSep(t[i + 1])

ChkHydraHosts(h) ==
    IF h.type = "list" THEN HostsAlternate(h.text)
                       ELSE Len(h.text) = 1 /\ ~ IsSep(h.text[1])

ChkHydraHostsIntern(h) ==
    /\ ChkHydraHosts(h)
    /\ \A i \in 1..Len(h.text) - 1 : IsSep(h.text[i]) =>
          h.text[i].ip = "," /\ ~ IsSep(h.text[i + 1])

ChkServices(list) ==
    /\ Tokens(list) # <<>>
    /\ ToSet(Tokens(list)) \subseteq KnownServices

WeekDays == {"SU", "MO", "TU", "WE", "TH", "FR", "SA"}

\* Any other type with a first time passes, and finds no cron line later.
ChkScheduleParam(s) ==
    CASE s.type = "none" -> s.first.year = 0 /\ s.list = <<>>
      [] s.type \in {"once", "daily"} -> s.first.year # 0 /\ s.list = <<>>
      [] s.type = "weekly" -> s.first.year # 0 /\ s.list # <<>> /\ ToSet(s.list) \subseteq WeekDays
      [] s.type = "monthly" -> s.first.year # 0 /\ s.list # <<>>
      [] OTHER -> s.first.year # 0

----------------------------------------------------------------------------
(* The client's check, and the daemon's                                    *)

SendCreate ==
    /\ stage = "sent"
    /\ IF ChkHydraHosts(req.hosts) /\ ChkServices(req.services) /\ ChkScheduleParam(req.sched)
         THEN /\ stage' = "queued"
              /\ req' = [req EXCEPT !.hosts.text = Escaped(@)]
         ELSE stage' = "refused" /\ UNCHANGED req
    /\ UNCHANGED <<asked, login, ipList, cron, params, rest, ran>>

CheckCreate ==
    /\ stage = "queued"
    /\ stage' = IF /\ ChkHydraHostsIntern(req.hosts)
                   /\ ChkServices(req.services)
                   /\ ChkScheduleParam(req.sched)
                THEN "checked" ELSE "rejected"
    /\ UNCHANGED <<req, asked, login, ipList, cron, params, rest, ran>>

----------------------------------------------------------------------------
(* The files                                                               *)

\* Variant: files are put together as they are.
CopyFileList_AsIs(list) ==
    IF \E i \in 1..Len(list) : list[i] \notin DOMAIN Files THEN Failed
    ELSE FlattenSeq([i \in 1..Len(list) |-> Files[list[i]]])

\* A file, closed by a line end.
Closed(f) == IF f = <<>> \/ Last(f) = "nl" THEN f ELSE Append(f, "nl")

\* The files of the list one after the other, each closed by a line end.  A file
\* that is not there fails the copy, and so does a list with nothing to copy.
CopyFileList(list) ==
    IF \E i \in 1..Len(list) : list[i] \notin DOMAIN Files THEN Failed
    ELSE FlattenSeq([i \in 1..Len(list) |-> Closed(Files[list[i]])])

\* One host a line.
ConvIPsByLine(t) ==
    IF \E i \in 1..Len(t) : t[i].ip = " " THEN Failed
    ELSE Without(t, Separators)

\* The first letters of a day's name give the whole of it, as the code has it.
CronName ==
    [SU |-> "SUN", MO |-> "MON", TU |-> "TUS", WE |-> "WED", TH |-> "THU",
     FR |-> "FRI", SA |-> "SAT"]
ConvWeekDay(list) == [i \in 1..Len(list) |-> CronName[list[i]]]

\* Days up to the first "-1"; what follows it is dropped.
ConvMonthDay(list) ==
    IF Contains(list, LastDay)
    THEN [days |-> SubSeq(list, 1, SelectInSeq(list, LAMBDA x : x = LastDay) - 1), last |-> TRUE]
    ELSE [days |-> list, last |-> FALSE]

Line == [day |-> <<>>, month |-> 0, wday |-> <<>>, lastOnly |-> FALSE]  \* every day

\* Variant: a list with the last day makes one line.
MonthlyLines_OneLine(list) ==
    LET m == ConvMonthDay(list)
    IN  IF m.last
        THEN << [Line EXCEPT !.day = <<"28", "29", "30", "31">>, !.lastOnly = TRUE] >>
        ELSE << [Line EXCEPT !.day = m.days] >>

MonthlyLines(list) ==
    LET m == ConvMonthDay(list)
    IN  (IF m.days = <<>> THEN <<>> ELSE << [Line EXCEPT !.day = m.days] >>)
        \o (IF m.last THEN << [Line EXCEPT !.day = <<"28", "29", "30", "31">>, !.lastOnly = TRUE] >>
                      ELSE <<>>)

FormatCronTask(s) ==
    CASE s.type = "once" -> << [Line EXCEPT !.day = <<s.first.day>>, !.month = s.first.month] >>
      [] s.type = "daily" -> << Line >>
      [] s.type = "weekly" -> << [Line EXCEPT !.wday = ConvWeekDay(s.list)] >>
      [] s.type = "monthly" -> MonthlyLines(s.list)
      [] OTHER -> Failed

\* The task's files; when one fails the task and its files are taken back.
WriteFiles ==
    LET l == CopyFileList(req.logins)
        isList == req.hosts.type = "list"
        h == IF isList THEN ConvIPsByLine(req.hosts.text) ELSE <<>>
        timed == req.sched.type # "none"
        c == IF timed THEN FormatCronTask(req.sched) ELSE <<>>
    IN  /\ stage = "checked"
        /\ IF l = Failed \/ (isList /\ h = Failed) \/ (timed /\ c = Failed)
             THEN stage' = "failed" /\ UNCHANGED <<login, ipList, cron>>
             ELSE stage' = "created" /\ login' = l /\ ipList' = h /\ cron' = c
        /\ UNCHANGED <<req, asked, params, rest, ran>>

----------------------------------------------------------------------------
(* The command line.  The vector has room for all arguments and is NULL    *)
(* where nothing was put; hydra sees it up to the first NULL.  "service"   *)
(* and "outfile" are buffers that get their text for each service.         *)

Common == <<"hydra", "-I", "-t", "4", "-T", "8", "-w", "10", "-o", "outfile",
            "-b", "json", "-L", "login", "-P", "passwd", "-f">>
NoArgs == [i \in 1..Len(Common) + 7 |-> Null]

Put(a, i, x) == [a EXCEPT ![i] = x]

\* Variant: the block does not take the place before "-s".
HostArgs_Behind(a, c, h) ==
    IF h.type = "list"
    THEN [args |-> Put(Put(a, c, "-M"), c + 1, "iplist"), cnt |-> c + 2]
    ELSE [args |-> Put(Put(a, c + 1, "-s"), c + 1, h.text[1].ip), cnt |-> c + 2]

\* The vector with the host arguments and the place of the next one (cnt).
HostArgs(a, c, h) ==
    IF h.type = "list"
    THEN [args |-> Put(Put(a, c, "-M"), c + 1, "iplist"), cnt |-> c + 2]
    ELSE LET s == Put(a, c + 1, "-s")
             b == h.text[1]
         IN  IF b.port # ""
             THEN [args |-> Put(Put(s, c + 2, b.port), c + 3, b.ip), cnt |-> c + 3]
             ELSE [args |-> Put(s, c, b.ip), cnt |-> c + 1]

GenCmdParams(r) ==
    LET common == [i \in DOMAIN NoArgs |-> IF i <= Len(Common) THEN Common[i] ELSE Null]
        h == HostArgs(common, Len(Common) + 1, r.hosts)
        s == Put(h.args, h.cnt, "service")
    IN  IF r.opts = "" THEN s ELSE Put(s, h.cnt + 1, r.opts)

RunHydra ==
    /\ stage = "created"
    /\ params' = GenCmdParams(req)
    /\ rest' = req.services
    /\ stage' = "running"
    /\ UNCHANGED <<req, asked, login, ipList, cron, ran>>

\* What hydra gets of the vector for a service.
SeenByHydra(a, s) ==
    LET n == SelectInSeq(a, LAMBDA x : x = Null)
        argv == SubSeq(a, 1, n - 1)
    IN  [i \in 1..Len(argv) |-> IF argv[i] = "service" THEN s ELSE argv[i]]

\* The next service up to its comma, or to the end.
NextService ==
    /\ stage = "running"
    /\ Tokens(rest) # <<>>
    /\ ran' = Append(ran, [argv |-> SeenByHydra(params, Head(rest)), out |-> Head(rest)])
    /\ rest' = Tail(rest)
    /\ UNCHANGED <<stage, req, asked, login, ipList, cron, params>>

NoMoreServices ==
    /\ stage = "running"
    /\ Tokens(rest) = <<>>
    /\ stage' = "ended"
    /\ UNCHANGED <<req, asked, login, ipList, cron, params, rest, ran>>

Next ==
    \/ SendCreate
    \/ CheckCreate
    \/ WriteFiles
    \/ RunHydra
    \/ NextService
    \/ NoMoreServices

Spec == Init /\ [][Next]_vars

----------------------------------------------------------------------------
(* Properties                                                              *)

\* A request the client lets through is not rejected by the daemon: the rewritten
\* hosts fit the daemon's narrower pattern (escapeHydraHosts, chkHydraHostsIntern).
Accepted == stage # "rejected"

\* Each hydra process gets the hosts of the request, by file or by argument with the
\* port in front, its own service and the options: "has port specified, seperate
\* ip block from port", "no port specified by only ip block, override -s param"
\* (genCmdParams, runHydraTask).
HostsMeant ==
    LET h == asked.hosts
    IN  IF h.type = "list" THEN <<"-M", "iplist">>
        ELSE (IF h.text[1].port = "" THEN <<>> ELSE <<"-s", h.text[1].port>>)
             \o <<h.text[1].ip>>
OptsMeant == IF asked.opts = "" THEN <<>> ELSE <<asked.opts>>
CommandMeant(s) == Common \o HostsMeant \o <<s>> \o OptsMeant
CommandsRight ==
    /\ \A i \in 1..Len(ran) :
          ran[i] = [argv |-> CommandMeant(asked.services[i]), out |-> asked.services[i]]
    /\ stage = "ended" => /\ Len(ran) >= 1
                          /\ \A s \in ToSet(asked.services) \ {""} :
                                \E i \in 1..Len(ran) : ran[i].out = s

\* hydra finds every host of the request in the file of hosts, and every line of
\* the template files as a line of its own in the login file (convIPsByLine,
\* copyFileList).
FilesRight ==
    stage \in {"created", "running", "ended"} =>
        /\ asked.hosts.type = "list" =>
              ipList = Without(asked.hosts.text, Separators)
        /\ WordsApart(login)
        /\ Last(login) = "nl"
        /\ Without(login, {"nl"}) =
              FlattenSeq([i \in 1..Len(asked.logins) |-> Without(Files[asked.logins[i]], {"nl"})])

\* When a schedule wants a scan.
Wanted(s, d) ==
    CASE s.type = "once" -> d.year = s.first.year /\ d.month = s.first.month /\ d.day = s.first.day
      [] s.type = "daily" -> TRUE
      [] s.type = "weekly" -> d.wday \in ToSet(s.list)
      [] s.type = "monthly" -> \/ d.day \in ToSet(s.list)
                               \/ LastDay \in ToSet(s.list) /\ d.last
      [] OTHER -> FALSE

\* cron, external: the names of its days, and when a line fires.
CronDays == [SUN |-> "SU", MON |-> "MO", TUE |-> "TU", WED |-> "WE", THU |-> "TH",
             FRI |-> "FR", SAT |-> "SA"]
Readable(line) == ToSet(line.wday) \subseteq DOMAIN CronDays
Fires(line, d) ==
    /\ Readable(line)
    /\ line.day = <<>> \/ d.day \in ToSet(line.day)
    /\ line.month = 0 \/ d.month = line.month
    /\ line.wday = <<>> \/ \E w \in ToSet(line.wday) : CronDays[w] = d.wday
    /\ line.lastOnly => d.last

\* cron starts a created task on every day its schedule names: a weekly one on the days
\* of the week, a monthly one on its days and, for -1, on the last day of every month
\* (formatCronTask).  Of all schedules this is false.
EveryDayFires ==
    stage = "created" =>
        \A d \in Dates : Wanted(asked.sched, d) =>
            \E i \in 1..Len(cron) : Fires(cron[i], d)

\* Schedules without a Tuesday, whose name is no day of cron, and, as convMonthDay
\* asks for without a check, with "-1" at the end of a list of days of the month.
Whole(s) ==
    /\ s.type = "weekly" => "TU" \notin ToSet(s.list)
    /\ s.type = "monthly" => \A i \in 1..Len(s.list) - 1 : s.list[i] # LastDay

\* Of these no day is lost: not the last day of a month, alone or behind others, not
\* a day in front of it, and no other day of the week (formatCronTask).
WholeDaysFire == Whole(asked.sched) => EveryDayFires

----------------------------------------------------------------------------
(* The inductive invariant behind the properties, in parts.                *)

\* The request is as asked until the client has rewritten its hosts.
Rewritten ==
    req = IF stage \in {"sent", "refused"} THEN asked
          ELSE [asked EXCEPT !.hosts.text = Escaped(asked.hosts.text)]

\* What goes on has passed the client's check.
PassedClient ==
    stage \notin {"sent", "refused"} =>
        ChkHydraHosts(asked.hosts) /\ ChkServices(asked.services) /\ ChkScheduleParam(asked.sched)

\* The files of hosts and logins are made of the request on its way.
FilesMade ==
    stage \in {"created", "running", "ended"} =>
        /\ req.hosts.type = "list" => ipList = ConvIPsByLine(req.hosts.text) /\ ipList # Failed
        /\ login = CopyFileList(req.logins) /\ login # Failed

\* The cron file is made of the schedule.
CronMade ==
    stage = "created" =>
        cron = IF asked.sched.type # "none" THEN FormatCronTask(asked.sched) ELSE <<>>

\* The services before the runner's place were run in turn with the one command
\* line, and the runner ends only when no service is left.
RunOf(a, s) == [argv |-> SeenByHydra(a, s), out |-> s]
RanInTurn ==
    IF stage \notin {"running", "ended"} THEN ran = <<>>
    ELSE /\ params = GenCmdParams(req)
         /\ \E n \in 0..Len(asked.services) :
               /\ ran = [i \in 1..n |-> RunOf(params, asked.services[i])]
               /\ rest = SubSeq(asked.services, n + 1, Len(asked.services))
         /\ stage = "ended" => Tokens(rest) = <<>>

\* The types the argument needs.
FilesTypeOK ==
    /\ stage \in {"sent", "refused", "queued", "rejected", "checked", "failed",
                  "created", "running", "ended"}
    /\ asked \in Requests

IInv ==
    /\ FilesTypeOK
    /\ Rewritten
    /\ PassedClient
    /\ FilesMade
    /\ CronMade
    /\ RanInTurn
    /\ Accepted

=============================================================================

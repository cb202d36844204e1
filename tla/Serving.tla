------------------------------- MODULE Serving -------------------------------
(***************************************************************************)
(* The serving tier: export_marts writes the marts and a meta table to one *)
(* SQLite file, table by table, in the place of the file before it; the    *)
(* API opens whatever the path names and answers from it.  There is no     *)
(* specification here: Refresh runs these actions as the last step of a    *)
(* refresh.                                                                *)
(*                                                                         *)
(* A table's content is the version of fct_stop_otp it was computed from.  *)
(* A file is known by its inode, its position in files: a connection stays *)
(* on its inode when the path is unlinked.                                 *)
(***************************************************************************)
EXTENDS Integers, Sequences

CONSTANTS
  Feeds,     \* the timetables there may be, by the name of their directory
  MARTS,     \* the marts, in the order they are exported
  Clients,   \* the processes that ask the API, a request at a time each
  MaxRuns    \* bound: the runs of export_marts

ASSUME ServingAssumption ==
  /\ Feeds \subseteq Nat \ {0}
  /\ MARTS \in Seq(STRING)
  /\ Len(MARTS) \in Nat \ {0}
  /\ \A i, j \in DOMAIN MARTS : MARTS[i] = MARTS[j] => i = j
  /\ \A i \in DOMAIN MARTS : MARTS[i] # "meta"
  /\ MaxRuns \in Nat

Exporters == 1..MaxRuns

\* What fct_stop_otp was joined from: the polls behind its arrivals, and the
\* feed behind its schedule.
Versions == [arrivals : Nat, schedule : Feeds \union {0}]
Missing == [arrivals |-> -2, schedule |-> 0] \* no such table, or not read yet
Empty == [arrivals |-> -1, schedule |-> 0]   \* a table without rows
Nobody == 0

Marts == {MARTS[i] : i \in DOMAIN MARTS}
Tables == Marts \union {"meta"}

\* Each endpoint and the tables it reads, in order.
Reads ==
  [health |-> <<"meta">>, meta |-> <<"meta">>,
   agencies |-> <<"mart_otp_by_agency", "meta">>,
   worst_routes |-> <<"meta", "mart_worst_routes">>,
   otp_by_hour |-> <<"meta", "mart_otp_by_route_hour">>]

\* The endpoints that have their mart exported.
Endpoints ==
  {e \in DOMAIN Reads : \A i \in DOMAIN Reads[e] : Reads[e][i] \in Tables}

VARIABLES
  otp,      \* fct_stop_otp
  marts,    \* the marts dbt keeps in its warehouse
  path,     \* the inode of serving/data/marts.sqlite, Nobody if there is none
  files,    \* the files that were ever created there, by inode
  exporter, \* exporter[x]: where export_marts of x is
  request   \* request[c]: the request of c, or its last one and the answer

servingVars == <<path, files, exporter, request>>

Contents == Versions \union {Missing, Empty}
NoTables == [t \in Tables |-> Missing]
NoExport == [pc |-> "idle", file |-> Nobody, next |-> 1, held |-> Missing]
NoRequest == [pc |-> "idle", endpoint |-> "health", file |-> Nobody,
              read |-> 0, got |-> NoTables, answer |-> "none"]
Inodes == 0..Len(files)

ServingTypeOK ==
  /\ path \in Inodes
  /\ files \in Seq([by : Exporters, table : [Tables -> Contents]])
  /\ exporter \in
       [Exporters -> [pc : {"idle", "connect", "load", "create", "insert", "window",
                            "create_meta", "insert_meta", "exported", "died"},
                      file : Inodes, next : Nat, held : Versions \union {Missing}]]
  /\ request \in
       [Clients -> [pc : {"idle", "checked", "reading"}, endpoint : DOMAIN Reads,
                    file : Inodes, read : Nat, got : [Tables -> Contents],
                    answer : {"none", "200", "500", "503", "degraded"}]]

ServingInit ==
  /\ path = Nobody /\ files = <<>>
  /\ exporter = [x \in Exporters |-> NoExport]
  /\ request = [c \in Clients |-> NoRequest]

---------------------------------------------------------------------------
(* export_marts.                                                           *)

Table(x) == files[exporter[x].file].table
Step(x, pc) == exporter' = [exporter EXCEPT ![x].pc = pc]
End(x, pc) == exporter' = [exporter EXCEPT ![x] = [NoExport EXCEPT !.pc = pc]]
Put(x, t, content) == files' = [files EXCEPT ![exporter[x].file].table[t] = content]
ThisMart(x) == MARTS[exporter[x].next]

\* exists(), and unlink() if it did: it raises when another export got there
\* between the two.
ExportUnlink(x) ==
  /\ exporter[x].pc = "idle"
  /\ path' = Nobody
  /\ \/ Step(x, "connect")
     \/ /\ path = Nobody /\ \E y \in Exporters \ {x} : exporter[y].pc # "idle"
        /\ End(x, "died")
  /\ UNCHANGED <<files, request>>

\* Broken: the freshness is written first, before the marts.
ExportConnectWithMeta(x) ==
  /\ exporter[x].pc = "connect"
  /\ IF path = Nobody
       THEN /\ files' = Append(files, [by |-> x, table |-> [NoTables EXCEPT !["meta"] = otp]])
            /\ path' = Len(files) + 1
       ELSE UNCHANGED <<files, path>>
  /\ exporter' = [exporter EXCEPT ![x].pc = "load", ![x].file = path']
  /\ UNCHANGED request

\* connect() creates the file, or opens the one another export just created.
ExportConnect(x) ==
  /\ exporter[x].pc = "connect"
  /\ IF path = Nobody
       THEN /\ files' = Append(files, [by |-> x, table |-> NoTables])
            /\ path' = Len(files) + 1
       ELSE UNCHANGED <<files, path>>
  /\ exporter' = [exporter EXCEPT ![x].pc = "load", ![x].file = path']
  /\ UNCHANGED request

\* Spark reads the mart into a DataFrame.
ExportLoad(x) ==
  /\ exporter[x].pc = "load"
  /\ exporter' = [exporter EXCEPT ![x].pc = "create", ![x].held = marts[ThisMart(x)]]
  /\ UNCHANGED <<path, files, request>>

\* Broken: to_sql with if_exists="replace".
ExportCreateOver(x) ==
  /\ exporter[x].pc = "create"
  /\ Put(x, ThisMart(x), Empty) /\ Step(x, "insert")
  /\ UNCHANGED <<path, request>>

\* to_sql creates the table in a transaction of its own.  It refuses to
\* replace one.
ExportCreate(x) ==
  /\ exporter[x].pc = "create"
  /\ IF Table(x)[ThisMart(x)] = Missing
       THEN Put(x, ThisMart(x), Empty) /\ Step(x, "insert")
       ELSE End(x, "died") /\ UNCHANGED files
  /\ UNCHANGED <<path, request>>

\* The rows follow in another transaction.
ExportInsert(x) ==
  /\ exporter[x].pc = "insert"
  /\ Put(x, ThisMart(x), exporter[x].held)
  /\ exporter' =
       [exporter EXCEPT
          ![x].pc = IF exporter[x].next = Len(MARTS) THEN "window" ELSE "load",
          ![x].next = @ + 1, ![x].held = Missing]
  /\ UNCHANGED <<path, request>>

\* The window of arrivals, "read from the fact table rather than assumed".
ExportWindow(x) ==
  /\ exporter[x].pc = "window"
  /\ exporter' = [exporter EXCEPT ![x].pc = "create_meta", ![x].held = otp]
  /\ UNCHANGED <<path, files, request>>

\* sqlite3 commits the CREATE TABLE on its own.
ExportCreateMeta(x) ==
  /\ exporter[x].pc = "create_meta"
  /\ IF Table(x)["meta"] = Missing
       THEN Put(x, "meta", Empty) /\ Step(x, "insert_meta")
       ELSE End(x, "died") /\ UNCHANGED files
  /\ UNCHANGED <<path, request>>

\* Broken: no commit.
ExportInsertMetaUncommitted(x) ==
  /\ exporter[x].pc = "insert_meta"
  /\ End(x, "exported")
  /\ UNCHANGED <<path, files, request>>

ExportInsertMeta(x) ==
  /\ exporter[x].pc = "insert_meta"
  /\ Put(x, "meta", exporter[x].held)
  /\ End(x, "exported")
  /\ UNCHANGED <<path, request>>

\* The process is killed, or Spark or SQLite raises.
ExportDie(x) ==
  /\ exporter[x].pc \notin {"idle", "exported", "died"}
  /\ End(x, "died")
  /\ UNCHANGED <<path, files, request>>

Export(x) ==
  \/ ExportUnlink(x) \/ ExportConnect(x)
  \/ ExportLoad(x) \/ ExportCreate(x) \/ ExportInsert(x)
  \/ ExportWindow(x) \/ ExportCreateMeta(x) \/ ExportInsertMeta(x)

---------------------------------------------------------------------------
(* The API.                                                                *)

Reply(c, got, answer) ==
  request' = [request EXCEPT ![c] = [NoRequest EXCEPT !.endpoint = request[c].endpoint,
                                                      !.got = got, !.answer = answer]]

\* A request comes and DB.exists() is asked.
Ask(c, e) ==
  /\ request[c].pc = "idle"
  /\ request' =
       [request EXCEPT ![c] =
          [NoRequest EXCEPT
             !.endpoint = e,
             !.pc = IF path = Nobody THEN "idle" ELSE "checked",
             !.answer = IF path # Nobody THEN "none"
                        ELSE IF e = "health" THEN "degraded" ELSE "503"]]
  /\ UNCHANGED <<path, files, exporter>>

\* _con: the file may be gone again.
Open(c) ==
  /\ request[c].pc = "checked"
  /\ IF path = Nobody
       THEN Reply(c, NoTables, "500")
       ELSE request' = [request EXCEPT ![c].pc = "reading", ![c].file = path]
  /\ UNCHANGED <<path, files, exporter>>

\* The next SELECT of the endpoint, a read transaction of its own.
Select(c) ==
  LET r == request[c]
      t == Reads[r.endpoint][r.read + 1]
      content == files[r.file].table[t]
      got == [r.got EXCEPT ![t] = content]
  IN /\ r.pc = "reading"
     /\ CASE content = Missing -> Reply(c, NoTables, "500")
          [] content # Missing /\ r.read + 1 = Len(Reads[r.endpoint]) -> Reply(c, got, "200")
          [] OTHER -> request' = [request EXCEPT ![c].got = got, ![c].read = @ + 1]
     /\ UNCHANGED <<path, files, exporter>>

ServingNext ==
  \/ \E x \in Exporters : Export(x) \/ ExportDie(x)
  \/ \E c \in Clients : (\E e \in Endpoints : Ask(c, e)) \/ Open(c) \/ Select(c)

\* The tables of an answer other than its freshness.
MartsOf(r) == {t \in Marts : \E i \in DOMAIN Reads[r.endpoint] : Reads[r.endpoint][i] = t}
=============================================================================

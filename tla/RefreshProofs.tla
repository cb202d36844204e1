---------------------------- MODULE RefreshProofs ----------------------------
(***************************************************************************)
(* What a refresh promises, for every number of feeds, marts, runs and     *)
(* clients.                                                                *)
(***************************************************************************)
EXTENDS Refresh, TLAPS

---------------------------------------------------------------------------
(* The served files.  An exporter owns its file from the creation of the   *)
(* first mart to the end: who meets a table of another dies on it.         *)

Writing == {"insert", "window", "create_meta", "insert_meta"}
Working == {"load", "create"} \union Writing
Owns(x) == exporter[x].pc \in Writing \/ exporter[x].next > 1

\* What the owner of a file has written so far.
Written(x) ==
  /\ \A i \in DOMAIN MARTS :
       /\ i < exporter[x].next => Table(x)[MARTS[i]] \in Versions
       /\ i = exporter[x].next =>
            Table(x)[MARTS[i]] = IF exporter[x].pc = "insert" THEN Empty ELSE Missing
       /\ i > exporter[x].next => Table(x)[MARTS[i]] = Missing
  /\ Table(x)["meta"] = IF exporter[x].pc = "insert_meta" THEN Empty ELSE Missing

OwnersWrite == \A x \in Exporters : Owns(x) => Written(x)

OneOwner ==
  \A x, y \in Exporters : (Owns(x) /\ Owns(y) /\ exporter[x].file = exporter[y].file) => x = y

FilesInOrder ==
  \A f \in DOMAIN files :
    /\ files[f].table[MARTS[1]] = Missing => \A t \in Tables : files[f].table[t] = Missing
    /\ files[f].table["meta"] # Missing => \A t \in Marts : files[f].table[t] \in Versions

FileType == [by : Exporters, table : [Tables -> Contents]]

ExporterPcs == {"idle", "connect", "exported", "died"} \union Working

ExporterType == [pc : ExporterPcs, file : Inodes, next : Nat, held : Versions \union {Missing}]

\* Where an exporter can be, whichever it is.
Place ==
  {e \in ExporterType :
     /\ e.pc \in Working <=> e.file \in DOMAIN files
     /\ e.pc \in {"load", "create", "insert"} => e.next \in DOMAIN MARTS
     /\ e.pc \in {"window", "create_meta", "insert_meta"} => e.next = Len(MARTS) + 1
     /\ e.pc \notin Working => e.next = 1
     /\ e.pc \in {"create", "insert", "create_meta", "insert_meta"} => e.held \in Versions}

ExportTypeOK ==
  path \in Inodes /\ files \in Seq(FileType) /\ exporter \in [Exporters -> Place]

ExportInv == ExportTypeOK /\ OwnersWrite /\ OneOwner /\ FilesInOrder

TablesTyped == otp \in Versions /\ marts \in [Marts -> Versions]

\* What a step leaves as it is.
PublishedStays ==
  /\ Len(files) <= Len(files')
  /\ \A f \in DOMAIN files :
       /\ f \in DOMAIN files'
       /\ files[f].table["meta"] \in Versions => files'[f] = files[f]

LEMMA MartFacts ==
  /\ 1 \in DOMAIN MARTS /\ Len(MARTS) \in Nat \ {0} /\ DOMAIN MARTS = 1..Len(MARTS)
  /\ \A i \in DOMAIN MARTS : MARTS[i] \in Marts /\ MARTS[i] \in Tables /\ MARTS[i] # "meta"
  /\ "meta" \in Tables /\ "meta" \notin Marts /\ Marts \subseteq Tables
  /\ \A t \in Marts : \E i \in DOMAIN MARTS : t = MARTS[i]
BY ServingAssumption DEF Marts, Tables

LEMMA ContentFacts ==
  /\ Missing \in Contents /\ Empty \in Contents /\ Versions \subseteq Contents
  /\ Missing \notin Versions /\ Empty \notin Versions /\ Missing # Empty
BY DEF Missing, Empty, Contents, Versions

LEMMA PutFacts ==
  ASSUME ExportTypeOK, NEW x \in Exporters, exporter[x].file \in DOMAIN files,
         NEW t \in Tables, NEW content \in Contents, Put(x, t, content)
  PROVE  /\ files' \in Seq(FileType) /\ Len(files') = Len(files)
         /\ \A f \in DOMAIN files, u \in Tables :
              files'[f].table[u] =
                IF f = exporter[x].file /\ u = t THEN content ELSE files[f].table[u]
         /\ \A f \in DOMAIN files :
              /\ files'[f].by = files[f].by
              /\ f # exporter[x].file => files'[f] = files[f]
<1> DEFINE g == exporter[x].file
           new == [files[g] EXCEPT !.table[t] = content]
<1>1. files \in Seq(FileType) /\ g \in 1..Len(files)
  BY DEF ExportTypeOK
<1>2. files' = [files EXCEPT ![g] = new]
  BY DEF Put
<1>3. files[g] \in FileType
  BY <1>1
<1>4. new = [by |-> files[g].by, table |-> [files[g].table EXCEPT ![t] = content]]
  BY <1>3 DEF FileType
<1>5. new \in FileType
  BY <1>3, <1>4 DEF FileType
<1>6. files' \in Seq(FileType) /\ Len(files') = Len(files)
  BY <1>1, <1>2, <1>5
<1>7. \A u \in Tables : new.table[u] = IF u = t THEN content ELSE files[g].table[u]
  BY <1>3, <1>4 DEF FileType
<1>8. \A f \in DOMAIN files : files'[f] = IF f = g THEN new ELSE files[f]
  BY <1>1, <1>2
<1>9. new.by = files[g].by
  BY <1>4
<1> HIDE DEF new
<1>10. \A f \in DOMAIN files, u \in Tables :
         files'[f].table[u] = IF f = g /\ u = t THEN content ELSE files[f].table[u]
  BY <1>7, <1>8
<1>11. \A f \in DOMAIN files : files'[f].by = files[f].by /\ (f # g => files'[f] = files[f])
  BY <1>8, <1>9
<1> QED
  BY <1>6, <1>10, <1>11

\* A step of an exporter that writes no table and makes it no owner.
LEMMA ExporterMoves ==
  ASSUME ExportInv, NEW x \in Exporters, NEW e \in Place,
         exporter' = [exporter EXCEPT ![x] = e], files' = files, path' \in Inodes,
         (e.pc \in Writing \/ e.next > 1) =>
           /\ Owns(x) /\ e.file = exporter[x].file /\ e.next = exporter[x].next
           /\ e.pc = "insert" <=> exporter[x].pc = "insert"
           /\ e.pc = "insert_meta" <=> exporter[x].pc = "insert_meta"
  PROVE  ExportInv' /\ PublishedStays
<1>1. /\ exporter'[x] = e
      /\ \A y \in Exporters : y # x => exporter'[y] = exporter[y]
  BY DEF ExportInv, ExportTypeOK
<1>2. ExportTypeOK'
  BY DEF ExportInv, ExportTypeOK, Place, ExporterType, Inodes
<1>3. \A y \in Exporters : Owns(y)' => Owns(y) /\ exporter'[y].file = exporter[y].file
  BY <1>1 DEF Owns
<1>4. OneOwner'
  BY <1>3 DEF ExportInv, OneOwner
<1>5. ASSUME NEW y \in Exporters, Owns(y)'
      PROVE  Written(y)'
  <2>1. Written(y)
    BY <1>3, <1>5 DEF ExportInv, OwnersWrite
  <2>2. /\ exporter'[y].file = exporter[y].file /\ exporter'[y].next = exporter[y].next
        /\ exporter'[y].pc = "insert" <=> exporter[y].pc = "insert"
        /\ exporter'[y].pc = "insert_meta" <=> exporter[y].pc = "insert_meta"
    BY <1>1, <1>5 DEF Owns
  <2> QED
    BY <2>1, <2>2 DEF Written, Table
<1>6. OwnersWrite'
  BY <1>5 DEF OwnersWrite
<1>7. FilesInOrder' /\ PublishedStays
  BY DEF ExportInv, ExportTypeOK, FilesInOrder, PublishedStays
<1> QED
  BY <1>2, <1>4, <1>6, <1>7 DEF ExportInv

\* A step that writes a table of a file nobody else owns.
LEMMA ExporterWrites ==
  ASSUME ExportInv, NEW x \in Exporters, NEW e \in Place,
         NEW t \in Tables, NEW content \in Contents, Put(x, t, content),
         exporter' = [exporter EXCEPT ![x] = e], path' = path,
         exporter[x].file \in DOMAIN files,
         e.pc \in Working => e.file = exporter[x].file,
         \A y \in Exporters : (Owns(y) /\ exporter[y].file = exporter[x].file) => y = x,
         files[exporter[x].file].table["meta"] \notin Versions,
         (e.pc \in Writing \/ e.next > 1) => Written(x)',
         LET table == files'[exporter[x].file].table
         IN /\ table[MARTS[1]] = Missing => \A u \in Tables : table[u] = Missing
            /\ table["meta"] # Missing => \A u \in Marts : table[u] \in Versions
  PROVE  ExportInv' /\ PublishedStays
<1> DEFINE g == exporter[x].file
<1>1. /\ exporter'[x] = e
      /\ \A y \in Exporters : y # x => exporter'[y] = exporter[y]
  BY DEF ExportInv, ExportTypeOK
<1>2. /\ files' \in Seq(FileType) /\ Len(files') = Len(files)
      /\ \A f \in DOMAIN files : f # g => files'[f] = files[f]
  BY PutFacts DEF ExportInv
<1>3. DOMAIN files' = DOMAIN files /\ DOMAIN files = 1..Len(files) /\ Inodes' = Inodes
  BY <1>2 DEF ExportInv, ExportTypeOK, Inodes
<1>4. ExportTypeOK'
  BY <1>2, <1>3 DEF ExportInv, ExportTypeOK, Place, ExporterType
<1>5. \A y \in Exporters : (y # x /\ Owns(y)') => Owns(y)
  BY <1>1 DEF Owns
<1>6. Owns(x)' => e.file = g
  BY <1>1 DEF Owns, Place, Writing, Working
<1>7. OneOwner'
  BY <1>1, <1>5, <1>6 DEF ExportInv, OneOwner
<1>8. ASSUME NEW y \in Exporters, y # x, Owns(y)'
      PROVE  Written(y)'
  <2>1. Written(y) /\ exporter'[y] = exporter[y] /\ exporter[y].file # g /\ Owns(y)
    BY <1>1, <1>5, <1>8 DEF ExportInv, OwnersWrite
  <2>2. exporter[y].file \in DOMAIN files
    BY <2>1 DEF ExportInv, ExportTypeOK, Place, Owns, Writing, Working
  <2>3. Table(y)' = Table(y)
    BY <1>2, <2>1, <2>2 DEF Table
  <2> QED
    BY <2>1, <2>3 DEF Written
<1>9. Owns(x)' => Written(x)'
  BY <1>1 DEF Owns
<1>10. OwnersWrite'
  BY <1>8, <1>9 DEF OwnersWrite
<1>11. FilesInOrder'
  BY <1>2, <1>3 DEF ExportInv, FilesInOrder
<1>12. PublishedStays
  BY <1>2, <1>3 DEF PublishedStays, ExportInv, ExportTypeOK
<1> QED
  BY <1>4, <1>7, <1>10, <1>11, <1>12 DEF ExportInv

LEMMA PlaceFacts ==
  ASSUME ExportInv, NEW x \in Exporters
  PROVE  /\ exporter[x] \in Place
         /\ Owns(x) => exporter[x].pc \in Working /\ exporter[x].file \in DOMAIN files /\ Written(x)
         /\ \A pc \in {"idle", "exported", "died"} : [NoExport EXCEPT !.pc = pc] \in Place
BY DEF ExportInv, ExportTypeOK, OwnersWrite, Owns, Place, ExporterType, ExporterPcs, Writing, Working,
       NoExport, Nobody, Inodes

LEMMA EndKeeps ==
  ASSUME ExportInv, NEW x \in Exporters, NEW pc \in {"exported", "died"},
         End(x, pc), UNCHANGED <<path, files>>
  PROVE  ExportInv' /\ PublishedStays
<1> DEFINE e == [NoExport EXCEPT !.pc = pc]
<1>1. e \in Place /\ e.pc = pc /\ e.next = 1
  BY PlaceFacts DEF NoExport
<1> HIDE DEF e
<1>2. exporter' = [exporter EXCEPT ![x] = e]
  BY DEF End, e
<1>3. path' \in Inodes
  BY DEF ExportInv, ExportTypeOK
<1>4. files' = files
  OBVIOUS
<1>5. e.pc \notin Writing /\ ~(e.next > 1)
  BY <1>1 DEF Writing
<1> QED
  BY <1>1, <1>2, <1>3, <1>4, <1>5, ExporterMoves

LEMMA UnlinkFacts ==
  ASSUME ExportInv, NEW x \in Exporters, ExportUnlink(x)
  PROVE  /\ path' = Nobody /\ files' = files
         /\ exporter[x].pc = "idle" /\ exporter'[x].pc \in {"connect", "died"}
<1>1. exporter[x] \in ExporterType
  BY PlaceFacts DEF Place
<1>2. exporter'[x].pc \in {"connect", "died"}
  BY <1>1 DEF ExportUnlink, Step, End, NoExport, ExportInv, ExportTypeOK, ExporterType
<1> QED
  BY <1>2 DEF ExportUnlink

LEMMA UnlinkKeeps ==
  ASSUME ExportInv, NEW x \in Exporters, ExportUnlink(x)
  PROVE  ExportInv' /\ PublishedStays
<1>0. CASE path = Nobody /\ End(x, "died")
  BY <1>0, EndKeeps DEF ExportUnlink
<1> SUFFICES ASSUME Step(x, "connect") PROVE ExportInv' /\ PublishedStays
  BY <1>0 DEF ExportUnlink
<1> DEFINE e == [exporter[x] EXCEPT !.pc = "connect"]
<1>1. e \in Place /\ e.pc = "connect" /\ e.next = 1
  BY PlaceFacts DEF ExportUnlink, Place, ExporterType, ExporterPcs, Working, Writing
<1> HIDE DEF e
<1>2. exporter' = [exporter EXCEPT ![x] = e] /\ path' \in Inodes /\ files' = files
  BY DEF ExportUnlink, Step, e, ExportInv, ExportTypeOK, Inodes, Nobody
<1>3. e.pc \notin Writing /\ ~(e.next > 1)
  BY <1>1 DEF Writing
<1> QED
  BY <1>1, <1>2, <1>3, ExporterMoves

LEMMA LoadKeeps ==
  ASSUME ExportInv, TablesTyped, NEW x \in Exporters, ExportLoad(x)
  PROVE  ExportInv' /\ PublishedStays
<1> DEFINE e == [exporter[x] EXCEPT !.pc = "create", !.held = marts[ThisMart(x)]]
<1>1. exporter[x].next \in DOMAIN MARTS /\ exporter[x].pc = "load"
  BY PlaceFacts DEF ExportLoad, Place
<1>2. marts[ThisMart(x)] \in Versions
  BY <1>1, MartFacts DEF TablesTyped, ThisMart
<1>3. e \in Place /\ e.pc = "create" /\ e.next = exporter[x].next /\ e.file = exporter[x].file
  BY <1>1, <1>2, PlaceFacts DEF Place, ExporterType, ExporterPcs, Working, Writing
<1> HIDE DEF e
<1>4. exporter' = [exporter EXCEPT ![x] = e] /\ path' \in Inodes /\ files' = files
  BY DEF ExportLoad, e, ExportInv, ExportTypeOK
<1> QED
  BY <1>1, <1>3, <1>4, ExporterMoves DEF Owns, Writing

LEMMA WindowKeeps ==
  ASSUME ExportInv, TablesTyped, NEW x \in Exporters, ExportWindow(x)
  PROVE  ExportInv' /\ PublishedStays
<1> DEFINE e == [exporter[x] EXCEPT !.pc = "create_meta", !.held = otp]
<1>1. exporter[x].pc = "window"
  BY DEF ExportWindow
<1>2. e \in Place /\ e.pc = "create_meta" /\ e.next = exporter[x].next /\ e.file = exporter[x].file
  BY <1>1, PlaceFacts DEF Place, ExporterType, ExporterPcs, Working, Writing, TablesTyped
<1> HIDE DEF e
<1>3. exporter' = [exporter EXCEPT ![x] = e] /\ path' \in Inodes /\ files' = files
  BY DEF ExportWindow, e, ExportInv, ExportTypeOK
<1> QED
  BY <1>1, <1>2, <1>3, ExporterMoves DEF Owns, Writing

\* A file that was just created has no table and no owner.
LEMMA ConnectKeeps ==
  ASSUME ExportInv, NEW x \in Exporters, ExportConnect(x)
  PROVE  ExportInv' /\ PublishedStays
<1> DEFINE joined == [exporter[x] EXCEPT !.pc = "load", !.file = path']
<1>1. exporter[x].pc = "connect" /\ exporter[x].next = 1 /\ exporter' = [exporter EXCEPT ![x] = joined]
  BY PlaceFacts DEF ExportConnect, Place, Working, Writing, ExportInv, ExportTypeOK
<1>2. exporter[x] \in ExporterType
  BY PlaceFacts DEF Place
<1>3. /\ joined = [pc |-> "load", file |-> path', next |-> 1, held |-> exporter[x].held]
      /\ exporter[x].held \in Versions \union {Missing}
  <2> DEFINE e == exporter[x]
  <2>1. e \in ExporterType /\ e.next = 1
    BY <1>1, <1>2
  <2> HIDE DEF e
  <2>2. \A p : [e EXCEPT !.pc = "load", !.file = p]
                 = [pc |-> "load", file |-> p, next |-> 1, held |-> e.held]
    <3> TAKE p
    <3> DEFINE d == [e EXCEPT !.pc = "load", !.file = p]
    <3>1. d \in [pc : {"load"}, file : {p}, next : {1}, held : {e.held}]
      BY <2>1 DEF ExporterType
    <3> HIDE DEF d
    <3>2. d = [pc |-> "load", file |-> p, next |-> 1, held |-> e.held]
      BY <3>1
    <3> QED
      BY <3>2 DEF d
  <2>3. e.held \in Versions \union {Missing}
    BY <2>1 DEF ExporterType
  <2> QED
    BY <2>2, <2>3 DEF e
<1> HIDE DEF joined
<1>4. CASE path # Nobody
  <2>1. path \in DOMAIN files /\ path' = path /\ files' = files /\ path \in Inodes
    BY <1>4 DEF ExportConnect, ExportInv, ExportTypeOK, Inodes, Nobody
  <2>2. joined \in Place
    BY <1>3, <2>1, MartFacts DEF Place, ExporterType, ExporterPcs, Working, Writing
  <2>3. joined.pc \notin Writing /\ ~(joined.next > 1) /\ path' \in Inodes
    BY <1>3, <2>1 DEF Writing
  <2> QED
    BY <1>1, <2>1, <2>2, <2>3, ExporterMoves
<1>5. CASE path = Nobody
  <2> DEFINE new == [by |-> x, table |-> NoTables]
  <2>1. files' = Append(files, new) /\ path' = Len(files) + 1
    BY <1>5 DEF ExportConnect
  <2>2. new \in FileType /\ (\A u \in Tables : new.table[u] = Missing)
    BY ContentFacts DEF FileType, NoTables
  <2>3. files \in Seq(FileType)
    BY DEF ExportInv, ExportTypeOK
  <2> HIDE DEF new
  <2>4. /\ files' \in Seq(FileType) /\ Len(files') = Len(files) + 1
        /\ files'[Len(files) + 1] = new /\ \A f \in DOMAIN files : files'[f] = files[f]
        /\ DOMAIN files = 1..Len(files) /\ DOMAIN files' = 1..(Len(files) + 1)
        /\ Len(files) \in Nat
    BY <2>1, <2>2, <2>3
  <2>5. joined \in Place'
    BY <1>3, <2>1, <2>4, MartFacts DEF Place, ExporterType, ExporterPcs, Working, Writing, Inodes
  <2>6. \A y \in Exporters : exporter[y] \in Place'
    <3> TAKE y \in Exporters
    <3>1. exporter[y] \in Place
      BY PlaceFacts
    <3>2. exporter[y].file # Len(files) + 1
      BY <3>1, <2>4 DEF Place, ExporterType, Inodes
    <3> QED
      BY <3>1, <3>2, <2>4 DEF Place, ExporterType, Inodes
  <2>7. ExportTypeOK'
    <3>1. exporter' \in [Exporters -> Place']
      BY <1>1, <2>5, <2>6 DEF ExportInv, ExportTypeOK
    <3> QED
      BY <2>1, <2>4, <3>1 DEF ExportTypeOK, Inodes
  <2>8. \A y \in Exporters : Owns(y)' => y # x /\ Owns(y) /\ exporter'[y] = exporter[y]
    BY <1>1, <1>3 DEF Owns, Writing, ExportInv, ExportTypeOK
  <2>9. OneOwner'
    BY <2>8 DEF ExportInv, OneOwner
  <2>10. ASSUME NEW y \in Exporters, Owns(y)'
         PROVE  Written(y)'
    <3>1. Owns(y) /\ exporter'[y] = exporter[y] /\ Written(y) /\ exporter[y].file \in DOMAIN files
      BY <2>8, <2>10, PlaceFacts
    <3>2. Table(y)' = Table(y)
      BY <2>4, <3>1 DEF Table
    <3> QED
      BY <3>1, <3>2 DEF Written
  <2>11. OwnersWrite'
    BY <2>10 DEF OwnersWrite
  <2>12. FilesInOrder'
    BY <2>2, <2>4, MartFacts DEF ExportInv, FilesInOrder
  <2>13. PublishedStays
    BY <2>4 DEF PublishedStays
  <2> QED
    BY <2>7, <2>9, <2>11, <2>12, <2>13 DEF ExportInv
<1> QED
  BY <1>4, <1>5

LEMMA CreateKeeps ==
  ASSUME ExportInv, NEW x \in Exporters, ExportCreate(x)
  PROVE  ExportInv' /\ PublishedStays
<1> DEFINE e == [exporter[x] EXCEPT !.pc = "insert"]
           n == exporter[x].next
           g == exporter[x].file
<1>1. /\ exporter[x] \in Place /\ exporter[x].pc = "create" /\ n \in DOMAIN MARTS
      /\ g \in DOMAIN files /\ ThisMart(x) = MARTS[n] /\ MARTS[n] \in Tables
      /\ exporter[x].held \in Versions
  BY PlaceFacts, MartFacts DEF ExportCreate, Place, Working, ThisMart
<1>2. CASE Table(x)[ThisMart(x)] # Missing
  BY <1>2, EndKeeps DEF ExportCreate
<1>3. CASE Table(x)[ThisMart(x)] = Missing
  <2>1. Put(x, MARTS[n], Empty) /\ exporter' = [exporter EXCEPT ![x] = e] /\ path' = path
    BY <1>1, <1>3 DEF ExportCreate, Step, ExportInv, ExportTypeOK
  <2>2. e \in Place /\ e.pc = "insert" /\ e.next = n /\ e.file = g
    BY <1>1 DEF Place, ExporterType, ExporterPcs, Working, Writing
  <2> HIDE DEF e
  <2>3. /\ \A u \in Tables : files'[g].table[u] = IF u = MARTS[n] THEN Empty ELSE files[g].table[u]
        /\ DOMAIN files' = DOMAIN files
    BY <1>1, <2>1, PutFacts, ContentFacts DEF ExportInv, ExportTypeOK
  <2>4. \A y \in Exporters : (Owns(y) /\ exporter[y].file = g) => y = x
    <3>1. CASE n > 1
      BY <3>1 DEF ExportInv, OneOwner, Owns
    <3>2. CASE n = 1
      <4> SUFFICES ASSUME NEW y \in Exporters, Owns(y), exporter[y].file = g
                   PROVE  FALSE
        OBVIOUS
      <4>1. files[g].table[MARTS[1]] = Missing /\ Written(y)
        BY <1>1, <1>3, <3>2, PlaceFacts DEF Table
      <4>2. exporter[y].pc = "insert" \/ exporter[y].next > 1
        BY PlaceFacts, MartFacts DEF Owns, Writing, Place
      <4>3. exporter[y].next \in Nat \ {0}
        BY PlaceFacts, MartFacts DEF Place, ExporterType, Working, Writing, ExporterPcs
      <4> QED
        BY <4>1, <4>2, <4>3, MartFacts, ContentFacts DEF Written, Table
    <3> QED
      BY <1>1, <3>1, <3>2, MartFacts
  <2>5. /\ \A i \in DOMAIN MARTS :
             /\ i < n => files[g].table[MARTS[i]] \in Versions
             /\ i >= n => files[g].table[MARTS[i]] = Missing
        /\ files[g].table["meta"] = Missing
    <3>1. CASE n > 1
      <4>1. Written(x)
        BY <3>1, PlaceFacts DEF Owns
      <4> QED
        BY <1>1, <4>1, MartFacts DEF Written, Table
    <3>2. CASE n = 1
      BY <1>1, <1>3, <3>2, MartFacts DEF ExportInv, FilesInOrder, Table
    <3> QED
      BY <1>1, <3>1, <3>2, MartFacts
  <2>6. Written(x)'
    <3>1. exporter'[x] = e
      BY <2>1 DEF ExportInv, ExportTypeOK
    <3>2. \A i \in DOMAIN MARTS : files'[g].table[MARTS[i]] =
            IF i = n THEN Empty ELSE files[g].table[MARTS[i]]
      BY <1>1, <2>3, MartFacts, ServingAssumption
    <3>3. files'[g].table["meta"] = Missing
      BY <1>1, <2>3, <2>5, MartFacts
    <3> QED
      BY <1>1, <2>2, <2>5, <3>1, <3>2, <3>3, MartFacts DEF Written, Table
  <2>7. files'[g].table[MARTS[1]] # Missing
    BY <1>1, <2>3, <2>5, MartFacts, ContentFacts
  <2>8. files'[g].table["meta"] = Missing
    BY <1>1, <2>3, <2>5, MartFacts
  <2> QED
    BY <1>1, <2>1, <2>2, <2>4, <2>5, <2>6, <2>7, <2>8, ContentFacts, ExporterWrites
<1> QED
  BY <1>2, <1>3

\* Where an owner stands when it writes.
LEMMA OwnerFacts ==
  ASSUME ExportInv, NEW x \in Exporters, exporter[x].pc \in Writing
  PROVE  /\ exporter[x] \in Place /\ exporter[x].file \in DOMAIN files /\ Written(x)
         /\ \A y \in Exporters : (Owns(y) /\ exporter[y].file = exporter[x].file) => y = x
         /\ Table(x)["meta"] \notin Versions
<1>1. Owns(x)
  BY DEF Owns
<1>2. Written(x) /\ exporter[x].file \in DOMAIN files /\ exporter[x] \in Place
  BY <1>1, PlaceFacts
<1>3. Table(x)["meta"] \notin Versions
  BY <1>2, ContentFacts DEF Written
<1> QED
  BY <1>1, <1>2, <1>3 DEF ExportInv, OneOwner

LEMMA InsertKeeps ==
  ASSUME ExportInv, NEW x \in Exporters, ExportInsert(x)
  PROVE  ExportInv' /\ PublishedStays
<1> DEFINE n == exporter[x].next
           g == exporter[x].file
           e == [exporter[x] EXCEPT !.pc = IF n = Len(MARTS) THEN "window" ELSE "load",
                                    !.next = @ + 1, !.held = Missing]
<1>1. exporter[x].pc = "insert" /\ exporter[x].pc \in Writing
  BY DEF ExportInsert, Writing
<1>2. /\ exporter[x] \in ExporterType /\ n \in DOMAIN MARTS /\ g \in DOMAIN files
      /\ ThisMart(x) = MARTS[n] /\ MARTS[n] \in Tables
      /\ exporter[x].held \in Versions /\ exporter[x].held \in Contents /\ Written(x)
  BY <1>1, OwnerFacts, MartFacts, ContentFacts DEF Place, ThisMart
<1>3. Put(x, MARTS[n], exporter[x].held) /\ exporter' = [exporter EXCEPT ![x] = e] /\ path' = path
  BY <1>2 DEF ExportInsert, ExportInv, ExportTypeOK
<1>4. /\ e.pc = (IF n = Len(MARTS) THEN "window" ELSE "load") /\ e.next = n + 1 /\ e.file = g
      /\ e \in ExporterType
  <2> DEFINE old == exporter[x]
             pc == IF n = Len(MARTS) THEN "window" ELSE "load"
  <2>1. old \in ExporterType /\ pc \in ExporterPcs
    BY <1>2 DEF ExporterPcs, Working, Writing
  <2>2. e = [old EXCEPT !.pc = pc, !.next = @ + 1, !.held = Missing]
    OBVIOUS
  <2> HIDE DEF old, pc, e
  <2>3. old.next + 1 \in Nat
    BY <2>1 DEF ExporterType
  <2>4. e \in [pc : {pc}, file : {old.file}, next : {old.next + 1}, held : {Missing}]
    BY <2>1, <2>2 DEF ExporterType
  <2>5. e \in ExporterType
    BY <2>1, <2>3, <2>4 DEF ExporterType
  <2> QED
    BY <2>4, <2>5 DEF old, pc
<1> HIDE DEF e
<1>5. e \in Place
  BY <1>2, <1>4, MartFacts DEF Place, Working, Writing
<1>6. /\ \A u \in Tables :
           files'[g].table[u] = IF u = MARTS[n] THEN exporter[x].held ELSE files[g].table[u]
  BY <1>2, <1>3, PutFacts DEF ExportInv, ExportTypeOK
<1>7. /\ \A i \in DOMAIN MARTS : files'[g].table[MARTS[i]] =
           IF i = n THEN exporter[x].held ELSE files[g].table[MARTS[i]]
      /\ files'[g].table["meta"] = files[g].table["meta"]
  BY <1>2, <1>6, MartFacts, ServingAssumption
<1>8. /\ \A i \in DOMAIN MARTS :
           /\ i < n => files[g].table[MARTS[i]] \in Versions
           /\ i > n => files[g].table[MARTS[i]] = Missing
      /\ files[g].table["meta"] = Missing
  BY <1>1, <1>2 DEF Written, Table
<1>9. exporter'[x] = e
  BY <1>3 DEF ExportInv, ExportTypeOK
<1>10. Written(x)'
  <2>1. /\ exporter'[x].next = n + 1 /\ exporter'[x].file = g
        /\ exporter'[x].pc # "insert" /\ exporter'[x].pc # "insert_meta"
    BY <1>4, <1>9
  <2>2. files'[g].table["meta"] = Missing
    BY <1>7, <1>8
  <2>3. \A i \in DOMAIN MARTS :
          /\ i < n + 1 => files'[g].table[MARTS[i]] \in Versions
          /\ i >= n + 1 => files'[g].table[MARTS[i]] = Missing
    <3> TAKE i \in DOMAIN MARTS
    <3>1. i \in Nat /\ n \in Nat
      BY <1>2, MartFacts
    <3>2. i = n => files'[g].table[MARTS[i]] \in Versions
      BY <1>2, <1>7
    <3>3. i # n => files'[g].table[MARTS[i]] = files[g].table[MARTS[i]]
      BY <1>7
    <3>4. i < n + 1 => i = n \/ (i # n /\ i < n)
      BY <3>1
    <3>5. i >= n + 1 => i # n /\ i > n
      BY <3>1
    <3> QED
      BY <1>8, <3>2, <3>3, <3>4, <3>5
  <2> QED
    <3> SUFFICES /\ \A i \in DOMAIN MARTS :
                      /\ i < n + 1 => files'[g].table[MARTS[i]] \in Versions
                      /\ i = n + 1 => files'[g].table[MARTS[i]] = Missing
                      /\ i > n + 1 => files'[g].table[MARTS[i]] = Missing
                 /\ files'[g].table["meta"] = Missing
      BY <2>1 DEF Written, Table
    <3> QED
      BY <1>2, <2>2, <2>3, MartFacts
<1>11. files'[g].table[MARTS[1]] # Missing
  BY <1>2, <1>7, <1>8, MartFacts, ContentFacts
<1> QED
  BY <1>1, <1>2, <1>3, <1>4, <1>5, <1>7, <1>8, <1>10, <1>11, OwnerFacts, ContentFacts, ExporterWrites

LEMMA CreateMetaKeeps ==
  ASSUME ExportInv, NEW x \in Exporters, ExportCreateMeta(x)
  PROVE  ExportInv' /\ PublishedStays
<1> DEFINE n == exporter[x].next
           g == exporter[x].file
           e == [exporter[x] EXCEPT !.pc = "insert_meta"]
<1>1. exporter[x].pc = "create_meta" /\ exporter[x].pc \in Writing
  BY DEF ExportCreateMeta, Writing
<1>2. /\ exporter[x] \in Place /\ n = Len(MARTS) + 1 /\ g \in DOMAIN files
      /\ Written(x) /\ Table(x)["meta"] = Missing
  BY <1>1, OwnerFacts DEF Place, Written
<1>3. Put(x, "meta", Empty) /\ exporter' = [exporter EXCEPT ![x] = e] /\ path' = path
  BY <1>2 DEF ExportCreateMeta, Step, ExportInv, ExportTypeOK
<1>4. e.pc = "insert_meta" /\ e.next = n /\ e.file = g /\ e \in Place
  BY <1>1, <1>2 DEF Place, ExporterType, ExporterPcs, Working, Writing
<1> HIDE DEF e
<1>5. \A u \in Tables : files'[g].table[u] = IF u = "meta" THEN Empty ELSE files[g].table[u]
  BY <1>2, <1>3, MartFacts, ContentFacts, PutFacts DEF ExportInv
<1>6. /\ \A i \in DOMAIN MARTS : files[g].table[MARTS[i]] \in Versions
      /\ files[g].table["meta"] = Missing
  BY <1>2, MartFacts DEF Written, Table
<1>7. /\ \A i \in DOMAIN MARTS : files'[g].table[MARTS[i]] \in Versions
      /\ files'[g].table["meta"] = Empty
  BY <1>5, <1>6, MartFacts
<1>8. exporter'[x] = e
  BY <1>3 DEF ExportInv, ExportTypeOK
<1>9. Written(x)'
  BY <1>2, <1>4, <1>7, <1>8, MartFacts DEF Written, Table
<1>10. files'[g].table[MARTS[1]] # Missing /\ \A u \in Marts : files'[g].table[u] \in Versions
  BY <1>7, MartFacts, ContentFacts
<1> QED
  BY <1>1, <1>2, <1>3, <1>4, <1>6, <1>9, <1>10, OwnerFacts, MartFacts, ContentFacts, ExporterWrites

LEMMA InsertMetaKeeps ==
  ASSUME ExportInv, NEW x \in Exporters, ExportInsertMeta(x)
  PROVE  ExportInv' /\ PublishedStays
<1> DEFINE g == exporter[x].file
           e == [NoExport EXCEPT !.pc = "exported"]
<1>1. exporter[x].pc = "insert_meta" /\ exporter[x].pc \in Writing
  BY DEF ExportInsertMeta, Writing
<1>2. /\ exporter[x].next = Len(MARTS) + 1 /\ g \in DOMAIN files /\ Written(x)
      /\ exporter[x].held \in Versions /\ exporter[x].held \in Contents
  BY <1>1, OwnerFacts, ContentFacts DEF Place
<1>3. Put(x, "meta", exporter[x].held) /\ exporter' = [exporter EXCEPT ![x] = e] /\ path' = path
  BY <1>2 DEF ExportInsertMeta, End, ExportInv, ExportTypeOK
<1>4. e.pc = "exported" /\ e.next = 1 /\ e \in Place
  BY PlaceFacts DEF NoExport
<1> HIDE DEF e
<1>5. \A u \in Tables :
        files'[g].table[u] = IF u = "meta" THEN exporter[x].held ELSE files[g].table[u]
  BY <1>2, <1>3, MartFacts, PutFacts DEF ExportInv
<1>6. \A i \in DOMAIN MARTS : files[g].table[MARTS[i]] \in Versions
  BY <1>2, MartFacts DEF Written, Table
<1>7. \A i \in DOMAIN MARTS : files'[g].table[MARTS[i]] \in Versions
  BY <1>5, <1>6, MartFacts
<1>8. files'[g].table[MARTS[1]] # Missing /\ \A u \in Marts : files'[g].table[u] \in Versions
  BY <1>7, MartFacts, ContentFacts
<1>9. e.pc \notin Working /\ e.pc \notin Writing /\ ~(e.next > 1)
  BY <1>4 DEF Working, Writing
<1>10. files[g].table["meta"] \notin Versions
  BY <1>1, OwnerFacts DEF Table
<1> QED
  BY <1>1, <1>2, <1>3, <1>4, <1>8, <1>9, <1>10, OwnerFacts, MartFacts, ExporterWrites

LEMMA ExportKeeps ==
  ASSUME ExportInv, TablesTyped, NEW x \in Exporters, Export(x) \/ ExportDie(x)
  PROVE  ExportInv' /\ PublishedStays
<1>1. CASE ExportDie(x)
  BY <1>1, EndKeeps DEF ExportDie
<1>2. CASE Export(x)
  BY <1>2, UnlinkKeeps, ConnectKeeps, LoadKeeps, CreateKeeps, InsertKeeps, WindowKeeps,
     CreateMetaKeeps, InsertMetaKeeps DEF Export
<1> QED
  BY <1>1, <1>2

---------------------------------------------------------------------------
(* The answers.                                                            *)

RequestType ==
  [pc : {"idle", "checked", "reading"}, endpoint : Endpoints, file : Inodes, read : Nat,
   got : [Tables -> Contents], answer : {"none", "200", "500", "503", "degraded"}]

RequestsPlaced ==
  /\ request \in [Clients -> RequestType]
  /\ \A c \in Clients :
       LET r == request[c]
       IN /\ r.pc = "reading" =>
               /\ r.file \in DOMAIN files /\ r.read < Len(Reads[r.endpoint])
               /\ r.got["meta"] \in Versions => files[r.file].table["meta"] \in Versions
          /\ r.pc = "checked" => r.read = 0 /\ r.got = NoTables
          /\ r.pc # "idle" => r.answer = "none"

ServingInv == ExportInv /\ RequestsPlaced /\ FreshAnswersAreWhole

LEMMA EndpointFacts ==
  ASSUME NEW e \in Endpoints
  PROVE  /\ e \in DOMAIN Reads /\ Len(Reads[e]) \in {1, 2} /\ DOMAIN Reads[e] = 1..Len(Reads[e])
         /\ \A i \in DOMAIN Reads[e] : Reads[e][i] \in Tables
         /\ e # "agencies" =>
              /\ Reads[e][1] = "meta"
              /\ Len(Reads[e]) = 2 => Reads[e][2] # "meta"
<1>1. e \in {"health", "meta", "agencies", "worst_routes", "otp_by_hour"}
  BY DEF Endpoints, Reads
<1>2. \A i \in DOMAIN Reads[e] : Reads[e][i] \in Tables
  BY DEF Endpoints
<1> QED
  BY <1>1, <1>2 DEF Reads

LEMMA HealthFact == "health" \in Endpoints
BY MartFacts DEF Endpoints, Reads

\* A request is answered, or goes on, while the files stay.
LEMMA RequestMoves ==
  ASSUME ServingInv, NEW c \in Clients, NEW r \in RequestType,
         request' = [request EXCEPT ![c] = r], UNCHANGED <<path, files, exporter>>,
         r.pc = "reading" =>
           /\ r.file \in DOMAIN files /\ r.read < Len(Reads[r.endpoint])
           /\ r.got["meta"] \in Versions => files[r.file].table["meta"] \in Versions,
         r.pc = "checked" => r.read = 0 /\ r.got = NoTables,
         r.pc # "idle" => r.answer = "none",
         Fresh(r) => \A t \in MartsOf(r) : r.got[t] \in Versions \/ r.endpoint = "agencies"
  PROVE  ServingInv' /\ PublishedStays
<1>1. request'[c] = r /\ \A d \in Clients : d # c => request'[d] = request[d]
  BY DEF ServingInv, RequestsPlaced
<1>2. request' \in [Clients -> RequestType]
  BY DEF ServingInv, RequestsPlaced
<1>3. Inodes' = Inodes /\ RequestType' = RequestType
  BY DEF Inodes, RequestType
<1>4. RequestsPlaced'
  BY <1>1, <1>2, <1>3 DEF ServingInv, RequestsPlaced
<1>5. FreshAnswersAreWhole'
  BY <1>1 DEF ServingInv, FreshAnswersAreWhole
<1>6. ExportInv'
  BY DEF ServingInv, ExportInv, ExportTypeOK, OwnersWrite, OneOwner, FilesInOrder, Inodes, Place,
         ExporterType, Owns, Written, Table
<1>7. PublishedStays
  BY DEF PublishedStays, ServingInv, ExportInv, ExportTypeOK
<1> QED
  BY <1>4, <1>5, <1>6, <1>7 DEF ServingInv

LEMMA ReplyKeeps ==
  ASSUME ServingInv, NEW c \in Clients, NEW got \in [Tables -> Contents],
         NEW answer \in {"none", "200", "500", "503", "degraded"},
         Reply(c, got, answer), UNCHANGED <<path, files, exporter>>,
         (answer = "200" /\ got["meta"] \in Versions) =>
           \A t \in MartsOf(request[c]) : got[t] \in Versions \/ request[c].endpoint = "agencies"
  PROVE  ServingInv' /\ PublishedStays
<1> DEFINE r == [NoRequest EXCEPT !.endpoint = request[c].endpoint,
                                  !.got = got, !.answer = answer]
<1>1. request[c].endpoint \in Endpoints
  BY DEF ServingInv, RequestsPlaced, RequestType
<1>2. 0 \in Inodes
  BY DEF ServingInv, ExportInv, ExportTypeOK, Inodes
<1>3. r \in [pc : {"idle"}, endpoint : {request[c].endpoint}, file : {0}, read : {0}, got : {got},
             answer : {answer}]
  BY DEF NoRequest, Nobody
<1>4. request' = [request EXCEPT ![c] = r]
  BY DEF Reply
<1> HIDE DEF r
<1>5. r \in RequestType
  BY <1>1, <1>2, <1>3 DEF RequestType
<1>6. /\ r.pc = "idle" /\ r.endpoint = request[c].endpoint /\ r.got = got /\ r.answer = answer
  BY <1>3
<1>7. MartsOf(r) = MartsOf(request[c])
  BY <1>6 DEF MartsOf
<1>8. Fresh(r) => \A t \in MartsOf(r) : r.got[t] \in Versions \/ r.endpoint = "agencies"
  BY <1>6, <1>7 DEF Fresh
<1> QED
  BY <1>4, <1>5, <1>6, <1>8, RequestMoves

LEMMA AskKeeps ==
  ASSUME ServingInv, NEW c \in Clients, NEW e \in Endpoints, Ask(c, e)
  PROVE  ServingInv' /\ PublishedStays
<1> DEFINE pc == IF path = Nobody THEN "idle" ELSE "checked"
           answer == IF path # Nobody THEN "none" ELSE IF e = "health" THEN "degraded" ELSE "503"
           r == [NoRequest EXCEPT !.endpoint = e, !.pc = pc, !.answer = answer]
<1>1. pc \in {"idle", "checked"} /\ answer \in {"none", "503", "degraded"}
      /\ (pc # "idle" => answer = "none")
  OBVIOUS
<1>2. request' = [request EXCEPT ![c] = r] /\ UNCHANGED <<path, files, exporter>>
  BY DEF Ask
<1>3. 0 \in Inodes /\ NoTables \in [Tables -> Contents]
  BY ContentFacts DEF ServingInv, ExportInv, ExportTypeOK, Inodes, NoTables
<1>4. r \in [pc : {pc}, endpoint : {e}, file : {0}, read : {0}, got : {NoTables}, answer : {answer}]
  BY DEF NoRequest, Nobody
<1> HIDE DEF pc, answer, r
<1>5. /\ r \in RequestType /\ r.pc # "reading" /\ r.answer # "200"
      /\ r.read = 0 /\ r.got = NoTables /\ (r.pc # "idle" => r.answer = "none")
  BY <1>1, <1>3, <1>4 DEF RequestType
<1> QED
  BY <1>2, <1>5, RequestMoves DEF Fresh

LEMMA OpenKeeps ==
  ASSUME ServingInv, NEW c \in Clients, Open(c)
  PROVE  ServingInv' /\ PublishedStays
<1>1. NoTables \in [Tables -> Contents]
  BY ContentFacts DEF NoTables
<1>2. CASE path = Nobody
  BY <1>1, <1>2, ReplyKeeps DEF Open
<1>3. CASE path # Nobody
  <2> DEFINE old == request[c]
             r == [old EXCEPT !.pc = "reading", !.file = path]
  <2>1. /\ old \in RequestType /\ old.pc = "checked" /\ old.answer = "none"
        /\ old.read = 0 /\ old.got = NoTables
    BY DEF Open, ServingInv, RequestsPlaced
  <2>2. path \in DOMAIN files /\ path \in Inodes
    BY <1>3 DEF ServingInv, ExportInv, ExportTypeOK, Inodes, Nobody
  <2>3. request' = [request EXCEPT ![c] = r] /\ UNCHANGED <<path, files, exporter>>
    BY <1>3 DEF Open, ServingInv, RequestsPlaced
  <2> HIDE DEF old
  <2>4. r \in [pc : {"reading"}, endpoint : {old.endpoint}, file : {path}, read : {0}, got : {NoTables},
               answer : {"none"}]
    BY <2>1 DEF RequestType
  <2> HIDE DEF r
  <2>5. r \in RequestType
    BY <1>1, <2>1, <2>2, <2>4 DEF RequestType
  <2>6. r.read < Len(Reads[r.endpoint])
    <3>1. r.endpoint \in Endpoints /\ r.read = 0
      BY <2>4, <2>5 DEF RequestType
    <3> DEFINE e == r.endpoint
    <3> HIDE DEF e
    <3>2. Len(Reads[e]) \in {1, 2}
      BY <3>1, EndpointFacts DEF e
    <3>3. 0 < Len(Reads[e])
      BY <3>2
    <3> QED
      BY <3>1, <3>3 DEF e
  <2>7. r.got["meta"] \notin Versions
    BY <2>4, MartFacts, ContentFacts DEF NoTables
  <2>8. r.pc = "reading" /\ r.file = path /\ r.answer = "none" /\ ~Fresh(r)
    BY <2>4 DEF Fresh
  <2> QED
    BY <2>2, <2>3, <2>5, <2>6, <2>7, <2>8, RequestMoves
<1> QED
  BY <1>2, <1>3

\* The endpoints but one read the window before their rows.
LEMMA SelectKeeps ==
  ASSUME ServingInv, NEW c \in Clients, Select(c)
  PROVE  ServingInv' /\ PublishedStays
<1> DEFINE r == request[c]
           e == r.endpoint
           t == Reads[e][r.read + 1]
           content == files[r.file].table[t]
           got == [r.got EXCEPT ![t] = content]
<1>1. /\ r \in RequestType /\ r.pc = "reading" /\ r.answer = "none" /\ e \in Endpoints
      /\ r.file \in DOMAIN files /\ r.read \in Nat /\ r.read < Len(Reads[e])
      /\ r.got["meta"] \in Versions => files[r.file].table["meta"] \in Versions
      /\ r.got \in [Tables -> Contents]
  BY DEF Select, ServingInv, RequestsPlaced, RequestType
<1>2. t \in Tables
  BY <1>1, EndpointFacts
<1>3. files[r.file] \in FileType
  BY <1>1 DEF ServingInv, ExportInv, ExportTypeOK
<1>4. content \in Contents /\ got \in [Tables -> Contents]
  BY <1>1, <1>2, <1>3 DEF FileType
<1>5. got["meta"] \in Versions => files[r.file].table["meta"] \in Versions
  BY <1>1, <1>2
<1>6. got["meta"] \in Versions => \A u \in Marts : files[r.file].table[u] \in Versions
  BY <1>1, <1>5, ContentFacts DEF ServingInv, ExportInv, FilesInOrder
<1>7. UNCHANGED <<path, files, exporter>>
  BY DEF Select
<1>8. CASE content = Missing
  <2>1. Reply(c, NoTables, "500") /\ NoTables \in [Tables -> Contents]
    BY <1>8, ContentFacts DEF Select, NoTables
  <2> QED
    BY <1>7, <2>1, ReplyKeeps
<1>9. CASE content # Missing /\ r.read + 1 = Len(Reads[e])
  <2>1. Reply(c, got, "200")
    BY <1>9 DEF Select
  <2>2. ASSUME got["meta"] \in Versions, e # "agencies", NEW u \in MartsOf(r)
        PROVE  got[u] \in Versions
    <3>1. u \in Marts /\ u = t
      <4>1. /\ e \in Endpoints /\ Len(Reads[e]) \in {1, 2} /\ DOMAIN Reads[e] = 1..Len(Reads[e])
            /\ Reads[e][1] = "meta"
        BY <1>1, <2>2, EndpointFacts
      <4>2. u \in Marts /\ \E i \in DOMAIN Reads[e] : Reads[e][i] = u
        BY <2>2 DEF MartsOf
      <4>3. u # "meta"
        BY <4>2, MartFacts
      <4>4. Len(Reads[e]) = 2 /\ Reads[e][2] = u
        BY <4>1, <4>2, <4>3
      <4> QED
        BY <1>9, <4>2, <4>4
    <3>2. got[u] = files[r.file].table[u]
      BY <1>1, <1>2, <3>1
    <3> QED
      BY <1>6, <2>2, <3>1, <3>2
  <2> HIDE DEF got, content, t
  <2> QED
    BY <1>4, <1>7, <2>1, <2>2, ReplyKeeps
<1>10. CASE content # Missing /\ r.read + 1 # Len(Reads[e])
  <2> DEFINE new == [r EXCEPT !.got = got, !.read = @ + 1]
  <2>1. request' = [request EXCEPT ![c] = new]
    BY <1>10 DEF Select, ServingInv, RequestsPlaced
  <2>2. new \in [pc : {"reading"}, endpoint : {e}, file : {r.file}, read : {r.read + 1}, got : {got},
                 answer : {"none"}]
    BY <1>1 DEF RequestType
  <2> HIDE DEF new, got, content, t
  <2>3. new \in RequestType
    BY <1>1, <1>4, <2>2 DEF RequestType
  <2>4. new.read < Len(Reads[new.endpoint])
    BY <1>1, <1>10, <2>2, EndpointFacts
  <2>5. /\ new.pc = "reading" /\ new.file = r.file /\ new.answer = "none" /\ ~Fresh(new)
        /\ new.got = got
    BY <2>2 DEF Fresh
  <2> QED
    BY <1>1, <1>5, <1>7, <2>1, <2>3, <2>4, <2>5, RequestMoves
<1> QED
  BY <1>8, <1>9, <1>10

\* An export takes nothing from a file a request is reading.
LEMMA ExportServes ==
  ASSUME ServingInv, TablesTyped, NEW x \in Exporters, Export(x) \/ ExportDie(x), request' = request
  PROVE  ServingInv' /\ PublishedStays
<1>1. ExportInv' /\ PublishedStays
  BY ExportKeeps DEF ServingInv
<1>2. DOMAIN files \subseteq DOMAIN files' /\ Inodes \subseteq Inodes'
  BY <1>1 DEF ServingInv, ExportInv, ExportTypeOK, PublishedStays, Inodes
<1>3. request' \in [Clients -> RequestType']
  BY <1>2 DEF ServingInv, RequestsPlaced, RequestType
<1>4. RequestsPlaced'
  BY <1>1, <1>2, <1>3 DEF ServingInv, RequestsPlaced, PublishedStays
<1>5. FreshAnswersAreWhole'
  BY DEF ServingInv, FreshAnswersAreWhole
<1> QED
  BY <1>1, <1>4, <1>5 DEF ServingInv

LEMMA ServingKeeps ==
  ASSUME ServingInv, TablesTyped, [ServingNext]_servingVars
  PROVE  ServingInv' /\ PublishedStays
<1>1. CASE UNCHANGED servingVars
  BY <1>1 DEF servingVars, ServingInv, ExportInv, ExportTypeOK, OwnersWrite, OneOwner, FilesInOrder,
     Inodes, Place, ExporterType, Owns, Written, Table, RequestsPlaced, RequestType,
     FreshAnswersAreWhole, PublishedStays
<1>2. CASE ServingNext
  <2>1. ASSUME NEW x \in Exporters, Export(x) \/ ExportDie(x)
        PROVE  ServingInv' /\ PublishedStays
    <3>1. request' = request
      BY <2>1 DEF Export, ExportDie, ExportUnlink, ExportConnect, ExportLoad, ExportCreate,
         ExportInsert, ExportWindow, ExportCreateMeta, ExportInsertMeta
    <3> QED
      BY <2>1, <3>1, ExportServes
  <2> QED
    BY <1>2, <2>1, AskKeeps, OpenKeeps, SelectKeeps DEF ServingNext
<1> QED
  BY <1>1, <1>2

LEMMA ServingStarts ==
  ASSUME ServingInit
  PROVE  ServingInv
<1>1. ExportTypeOK
  BY DEF ServingInit, ExportTypeOK, Inodes, Nobody, Place, ExporterType, ExporterPcs, Working, Writing,
     NoExport
<1>2. OwnersWrite /\ OneOwner /\ FilesInOrder
  BY DEF ServingInit, OwnersWrite, OneOwner, FilesInOrder, Owns, NoExport, Writing
<1>3. RequestsPlaced
  BY HealthFact, ContentFacts DEF ServingInit, RequestsPlaced, RequestType, NoRequest, NoTables,
     Inodes, Nobody
<1>4. FreshAnswersAreWhole
  BY DEF ServingInit, FreshAnswersAreWhole, Fresh, NoRequest
<1> QED
  BY <1>1, <1>2, <1>3, <1>4 DEF ServingInv, ExportInv

---------------------------------------------------------------------------
(* Types, and the step of a refresh as a step of its serving tier.         *)

AssetNames ==
  {"gtfs_static_snapshot", "gtfs_stop_schedule_staging", "dim_stop_schedule",
   "bronze_vehicle_positions", "silver_vehicle_positions", "fct_stop_arrival",
   "fct_stop_otp", "dbt_marts", "serving_export"}

LEMMA AssetFacts == Assets = AssetNames
BY DEF Assets, Upstream, AssetNames

LEMMA ReadingFacts ==
  ASSUME TablesTypeOK, NEW a \in Assets, NEW read \in Readings(a)
  PROVE  read \in Versions
<1>1. CASE a = "gtfs_static_snapshot"
  BY <1>1 DEF Readings, TablesTypeOK, Versions, OfSchedule
<1>2. CASE a = "gtfs_stop_schedule_staging"
  BY <1>2 DEF Readings, TablesTypeOK, Versions, OfSchedule
<1>3. CASE a = "dim_stop_schedule"
  BY <1>3 DEF Readings, TablesTypeOK, Versions, OfSchedule
<1>4. CASE a \in {"bronze_vehicle_positions", "silver_vehicle_positions", "fct_stop_arrival"}
  BY <1>4 DEF Readings, TablesTypeOK, Versions, OfArrivals
<1>5. CASE a \in {"fct_stop_otp", "dbt_marts", "serving_export"}
  BY <1>5 DEF Readings, TablesTypeOK, Versions
<1> QED
  BY <1>1, <1>2, <1>3, <1>4, <1>5, AssetFacts DEF AssetNames

LEMMA NothingFact == Nothing \in Versions
BY DEF Nothing, Versions

LEMMA CommitTypes ==
  ASSUME TablesTypeOK, NEW r \in Runs, NEW a \in Assets, Commit(r, a)
  PROVE  /\ extracted' \subseteq Feeds \/ a = "gtfs_static_snapshot"
         /\ input[r][a].schedule \in Feeds => extracted' \subseteq Feeds
         /\ staging' \in Feeds \union {0} /\ dim' \in Feeds \union {0}
         /\ bronze' \in Nat /\ silver' \in Nat /\ arrival' \in Nat
         /\ otp' \in Versions /\ fetched' \in [Runs -> Feeds \union {0}]
<1>1. input[r][a] \in Versions
  BY DEF TablesTypeOK
<1>2. input[r][a].schedule \in Feeds \union {0} /\ input[r][a].arrivals \in Nat
  BY <1>1 DEF Versions
<1>3. \A m, n \in Nat : Later(m, n) \in Nat
  BY DEF Later
<1> QED
  BY <1>1, <1>2, <1>3 DEF Commit, TablesTypeOK

\* A snapshot that runs has fetched a feed.
SnapshotReads ==
  \A r \in Runs : status[r]["gtfs_static_snapshot"] = "running" =>
    input[r]["gtfs_static_snapshot"].schedule \in Feeds

LEMMA MarkFacts ==
  ASSUME TablesTypeOK, NEW r \in Runs, NEW a \in Assets, NEW s \in Statuses, Mark(r, a, s)
  PROVE  /\ status' \in [Runs -> [Assets -> Statuses]]
         /\ \A q \in Runs, b \in Assets :
              status'[q][b] = IF q = r /\ b = a THEN s ELSE status[q][b]
BY DEF Mark, TablesTypeOK

LEMMA InputFacts ==
  ASSUME TablesTypeOK, NEW r \in Runs, NEW a \in Assets, NEW read \in Versions,
         input' = [input EXCEPT ![r][a] = read]
  PROVE  /\ input' \in [Runs -> [Assets -> Versions]]
         /\ \A q \in Runs, b \in Assets :
              input'[q][b] = IF q = r /\ b = a THEN read ELSE input[q][b]
BY DEF TablesTypeOK

LEMMA StartTypes ==
  ASSUME TablesTypeOK, SnapshotReads, NEW r \in Runs, NEW a \in Assets, Start(r, a)
  PROVE  TablesTypeOK' /\ SnapshotReads'
<1>1. PICK read \in Readings(a) : input' = [input EXCEPT ![r][a] = read]
  BY DEF Start
<1>2. read \in Versions
  BY ReadingFacts
<1>3. /\ input' \in [Runs -> [Assets -> Versions]]
      /\ \A q \in Runs, b \in Assets :
           input'[q][b] = IF q = r /\ b = a THEN read ELSE input[q][b]
  BY <1>1, <1>2, InputFacts
<1>4. /\ status' \in [Runs -> [Assets -> Statuses]]
      /\ \A q \in Runs, b \in Assets :
           status'[q][b] = IF q = r /\ b = a THEN "running" ELSE status[q][b]
  BY MarkFacts DEF Start, Statuses
<1>5. UNCHANGED <<sources, tables, built, history>>
  BY DEF Start
<1>6. TablesTypeOK'
  BY <1>3, <1>4, <1>5 DEF TablesTypeOK, sources, tables, history, Statuses
<1>7. a = "gtfs_static_snapshot" => read.schedule \in Feeds
  BY DEF Readings, OfSchedule, TablesTypeOK
<1>8. "gtfs_static_snapshot" \in Assets
  BY AssetFacts DEF AssetNames
<1>9. SnapshotReads'
  BY <1>3, <1>4, <1>7, <1>8 DEF SnapshotReads
<1> QED
  BY <1>6, <1>9

LEMMA MaterialiseTypes ==
  ASSUME TablesTypeOK, SnapshotReads, NEW r \in Runs, NEW a \in Assets, NEW s \in {"done", "failed"},
         Materialise(r, a, s), faults' \in 0..MaxFaults
  PROVE  TablesTypeOK' /\ SnapshotReads'
<1>1. /\ input' \in [Runs -> [Assets -> Versions]]
      /\ \A q \in Runs, b \in Assets :
           input'[q][b] = IF q = r /\ b = a THEN Nothing ELSE input[q][b]
  <2>1. input' = [input EXCEPT ![r][a] = Nothing]
    BY DEF Materialise
  <2> QED
    BY <2>1, InputFacts, NothingFact
<1>2. /\ status' \in [Runs -> [Assets -> Statuses]]
      /\ \A q \in Runs, b \in Assets :
           status'[q][b] = IF q = r /\ b = a THEN s ELSE status[q][b]
  BY MarkFacts DEF Materialise, Statuses
<1>3. extracted' \subseteq Feeds
  BY CommitTypes DEF Materialise, SnapshotReads
<1>4. /\ staging' \in Feeds \union {0} /\ dim' \in Feeds \union {0}
      /\ bronze' \in Nat /\ silver' \in Nat /\ arrival' \in Nat
      /\ otp' \in Versions /\ fetched' \in [Runs -> Feeds \union {0}]
  BY CommitTypes DEF Materialise
<1>5. UNCHANGED <<sources, marts, built, began, overlapped>>
  BY DEF Materialise
<1>6. TablesTypeOK'
  BY <1>1, <1>2, <1>3, <1>4, <1>5 DEF TablesTypeOK, sources, Statuses
<1>7. SnapshotReads'
  BY <1>1, <1>2, AssetFacts DEF SnapshotReads, AssetNames
<1> QED
  BY <1>6, <1>7

LEMMA OutsideTypes ==
  ASSUME TablesTypeOK, SnapshotReads, UNCHANGED <<tables, runVars, history>>,
         UNCHANGED sources \/ Poll \/ Republish
  PROVE  TablesTypeOK' /\ SnapshotReads'
<1>1. archive' \in Nat /\ feed' \in Feeds /\ changes' \in 0..MaxChanges
  BY RefreshAssumption DEF Poll, Republish, Change, TablesTypeOK, sources
<1> QED
  BY <1>1 DEF TablesTypeOK, SnapshotReads, tables, runVars, history, Statuses

LEMMA RunTypes ==
  ASSUME TablesTypeOK, SnapshotReads, NEW r \in Runs,
         Launch(r) \/ BuildMart(r) \/ ExportStep(r)
  PROVE  TablesTypeOK' /\ SnapshotReads'
<1>2. CASE Launch(r)
  <2>1. status' \in [Runs -> [Assets -> Statuses]]
        /\ \A q \in Runs, b \in Assets :
             status'[q][b] = IF q = r THEN "waiting" ELSE status[q][b]
    BY <1>2 DEF Launch, TablesTypeOK, Statuses
  <2>2. began' \in [Runs -> Nat] /\ overlapped' \subseteq Runs
    BY <1>2 DEF Launch, TablesTypeOK
  <2>3. UNCHANGED <<sources, tables, input, built, fetched, faults>>
    BY <1>2 DEF Launch
  <2>4. TablesTypeOK'
    BY <2>1, <2>2, <2>3 DEF TablesTypeOK, sources, tables, Statuses
  <2>5. SnapshotReads'
    BY <2>1, <2>3, AssetFacts DEF SnapshotReads, AssetNames
  <2> QED
    BY <2>4, <2>5
<1>3. CASE BuildMart(r)
  <2>1. built[r] + 1 \in DOMAIN MARTS
    BY <1>3, MartFacts DEF BuildMart, TablesTypeOK
  <2>2. marts' \in [Marts -> Versions] /\ built' \in [Runs -> Nat]
    BY <1>3, <2>1, MartFacts DEF BuildMart, TablesTypeOK
  <2>3. UNCHANGED <<sources, extracted, staging, dim, bronze, silver, arrival, otp, status, input, history>>
    BY <1>3 DEF BuildMart
  <2> QED
    BY <2>2, <2>3 DEF TablesTypeOK, SnapshotReads, sources, history
<1>4. CASE ExportStep(r)
  <2>1. "serving_export" \in Assets
    BY AssetFacts DEF AssetNames
  <2> DEFINE s == CASE exporter'[r].pc = "exported" -> "done"
                    [] exporter'[r].pc = "died"     -> "failed"
                    [] OTHER                        -> "running"
  <2>2. s \in Statuses /\ Mark(r, "serving_export", s)
    BY <1>4 DEF ExportStep, Statuses
  <2> HIDE DEF s
  <2>3. /\ status' \in [Runs -> [Assets -> Statuses]]
        /\ \A q \in Runs, b \in Assets :
             status'[q][b] = IF q = r /\ b = "serving_export" THEN s ELSE status[q][b]
    BY <2>1, <2>2, MarkFacts
  <2>4. UNCHANGED <<sources, tables, input, built, history>>
    BY <1>4 DEF ExportStep
  <2>5. TablesTypeOK'
    BY <2>3, <2>4 DEF TablesTypeOK, sources, tables, history, Statuses
  <2>6. SnapshotReads'
    BY <2>3, <2>4, AssetFacts DEF SnapshotReads, AssetNames
  <2> QED
    BY <2>5, <2>6
<1> QED
  BY <1>2, <1>3, <1>4

\* A fault ends one running asset, after its commit or before it.
FailsEarly(r, a) ==
  /\ status[r][a] = "running"
  /\ Mark(r, a, "failed")
  /\ input' = [input EXCEPT ![r][a] = Nothing]
  /\ IF a = "serving_export" THEN ExportDie(r) ELSE UNCHANGED servingVars
  /\ UNCHANGED <<sources, tables, built, began, fetched, overlapped>>

LEMMA FaultCases ==
  ASSUME TablesTypeOK, NEW r \in Runs, Fault(r)
  PROVE  /\ faults' \in 0..MaxFaults
         /\ \E a \in Assets : Materialise(r, a, "failed") \/ FailsEarly(r, a)
BY RefreshAssumption DEF Fault, FailsEarly, TablesTypeOK

LEMMA FailTypes ==
  ASSUME TablesTypeOK, SnapshotReads, NEW r \in Runs, NEW a \in Assets, FailsEarly(r, a),
         faults' \in 0..MaxFaults
  PROVE  TablesTypeOK' /\ SnapshotReads'
<1>1. /\ input' \in [Runs -> [Assets -> Versions]]
      /\ \A q \in Runs, b \in Assets :
           input'[q][b] = IF q = r /\ b = a THEN Nothing ELSE input[q][b]
  <2>1. input' = [input EXCEPT ![r][a] = Nothing]
    BY DEF FailsEarly
  <2> QED
    BY <2>1, InputFacts, NothingFact
<1>2. /\ status' \in [Runs -> [Assets -> Statuses]]
      /\ \A q \in Runs, b \in Assets :
           status'[q][b] = IF q = r /\ b = a THEN "failed" ELSE status[q][b]
  BY MarkFacts DEF FailsEarly, Statuses
<1>3. UNCHANGED <<sources, tables, built, began, fetched, overlapped>>
  BY DEF FailsEarly
<1>4. TablesTypeOK'
  BY <1>1, <1>2, <1>3 DEF TablesTypeOK, sources, tables, Statuses
<1>5. SnapshotReads'
  BY <1>1, <1>2, AssetFacts DEF SnapshotReads, AssetNames
<1> QED
  BY <1>4, <1>5

LEMMA ServingStep ==
  ASSUME TablesTypeOK, [RefreshNext]_refreshVars
  PROVE  [ServingNext]_servingVars
<1>1. CASE Poll \/ Republish
  BY <1>1 DEF Poll, Republish, Change
<1>2. ASSUME NEW r \in Runs, Launch(r) \/ BuildMart(r) \/ \E a \in Assets : Start(r, a)
      PROVE  UNCHANGED servingVars
  BY <1>2 DEF Launch, BuildMart, Start
<1>3. ASSUME NEW r \in Runs, NEW a \in Assets, NEW s \in {"done", "failed"}, Materialise(r, a, s)
      PROVE  UNCHANGED servingVars
  BY <1>3 DEF Materialise
<1>4. ASSUME NEW r \in Runs, ExportStep(r)
      PROVE  ServingNext
  BY <1>4 DEF ExportStep, ServingNext, Runs
<1>5. ASSUME NEW r \in Runs, Fault(r)
      PROVE  [ServingNext]_servingVars
  <2>1. PICK a \in Assets : Materialise(r, a, "failed") \/ FailsEarly(r, a)
    BY <1>5, FaultCases
  <2> QED
    BY <1>3, <2>1 DEF FailsEarly, ServingNext, Runs
<1>6. ASSUME NEW c \in Clients, ApiStep(c)
      PROVE  ServingNext
  BY <1>6 DEF ApiStep, ServingNext
<1>7. CASE UNCHANGED refreshVars
  BY <1>7 DEF refreshVars
<1> QED
  BY <1>1, <1>2, <1>3, <1>4, <1>5, <1>6, <1>7 DEF RefreshNext, RunStep

BaseInv == TablesTypeOK /\ SnapshotReads /\ ServingInv

LEMMA BaseStarts ==
  ASSUME RefreshInit
  PROVE  BaseInv
<1>1. TablesTypeOK /\ SnapshotReads
  BY NothingFact, AssetFacts, RefreshAssumption
     DEF RefreshInit, TablesTypeOK, SnapshotReads, Statuses, Nothing, Versions, AssetNames
<1> QED
  BY <1>1, ServingStarts DEF RefreshInit, BaseInv

LEMMA BaseKeeps ==
  ASSUME BaseInv, [RefreshNext]_refreshVars
  PROVE  BaseInv' /\ PublishedStays
<1>1. ServingInv' /\ PublishedStays
  BY ServingStep, ServingKeeps DEF BaseInv, TablesTyped, TablesTypeOK
<1>2. CASE UNCHANGED refreshVars
  <2>1. UNCHANGED <<tables, runVars, history>> /\ UNCHANGED sources
    BY <1>2 DEF refreshVars
  <2> QED
    BY <1>1, <2>1, OutsideTypes DEF BaseInv
<1>3. CASE RefreshNext
  <2>1. CASE Poll \/ Republish
    <3>1. UNCHANGED <<tables, runVars, history>>
      BY <2>1 DEF Poll, Republish, Change
    <3>2. TablesTypeOK /\ SnapshotReads
      BY DEF BaseInv
    <3> QED
      BY <1>1, <2>1, <3>1, <3>2, OutsideTypes DEF BaseInv
  <2>2. CASE \E c \in Clients : ApiStep(c)
    <3>1. UNCHANGED <<tables, runVars, history>> /\ UNCHANGED sources
      BY <2>2 DEF ApiStep
    <3>2. TablesTypeOK /\ SnapshotReads
      BY DEF BaseInv
    <3> QED
      BY <1>1, <3>1, <3>2, OutsideTypes DEF BaseInv
  <2>3. ASSUME NEW r \in Runs, Launch(r) \/ RunStep(r) \/ Fault(r)
        PROVE  TablesTypeOK' /\ SnapshotReads'
    <3>1. CASE Launch(r) \/ BuildMart(r) \/ ExportStep(r)
      BY <3>1, RunTypes DEF BaseInv
    <3>2. CASE \E a \in Assets : Start(r, a)
      BY <3>2, StartTypes DEF BaseInv
    <3>3. CASE (\E a \in Assets : Materialise(r, a, "done")) /\ UNCHANGED faults
      BY <3>3, MaterialiseTypes DEF BaseInv, TablesTypeOK
    <3>4. CASE Fault(r)
      <4>1. PICK a \in Assets : Materialise(r, a, "failed") \/ FailsEarly(r, a)
        BY <3>4, FaultCases DEF BaseInv
      <4>2. faults' \in 0..MaxFaults
        BY <3>4, FaultCases DEF BaseInv
      <4> QED
        BY <4>1, <4>2, MaterialiseTypes, FailTypes DEF BaseInv
    <3> QED
      BY <2>3, <3>1, <3>2, <3>3, <3>4 DEF RunStep
  <2>4. TablesTypeOK' /\ SnapshotReads'
    BY <1>3, <2>1, <2>2, <2>3 DEF RefreshNext, BaseInv
  <2> QED
    BY <1>1, <2>4 DEF BaseInv
<1> QED
  BY <1>1, <1>2, <1>3 DEF BaseInv

LEMMA ServingTypes ==
  ASSUME ServingInv
  PROVE  ServingTypeOK
<1>1. path \in Inodes /\ files \in Seq([by : Exporters, table : [Tables -> Contents]])
  BY DEF ServingInv, ExportInv, ExportTypeOK, FileType
<1>2. exporter \in [Exporters -> ExporterType]
  BY DEF ServingInv, ExportInv, ExportTypeOK, Place
<1>3. Endpoints \subseteq DOMAIN Reads
  BY DEF Endpoints
<1>4. request \in
       [Clients -> [pc : {"idle", "checked", "reading"}, endpoint : DOMAIN Reads,
                    file : Inodes, read : Nat, got : [Tables -> Contents],
                    answer : {"none", "200", "500", "503", "degraded"}]]
  BY <1>3 DEF ServingInv, RequestsPlaced, RequestType
<1> QED
  BY <1>1, <1>2, <1>4 DEF ServingTypeOK, ExporterType, ExporterPcs, Working, Writing

---------------------------------------------------------------------------
(* Runs.  One that has met no other is alone with the tables, until it is  *)
(* marked as overlapped.                                                   *)

OneLone ==
  \A r, q \in Runs : (r \notin overlapped /\ Active(r) /\ Active(q)) => q = r

\* A run's assets start after those above them.
RunsOrdered ==
  \A r \in Runs, a \in Assets : status[r][a] \in {"running", "done", "failed"} =>
    \A u \in Upstream[a] : status[r][u] = "done"

\* What the run has built, and what its export has done.
InStep(r) ==
  /\ built[r] <= Len(MARTS)
  /\ status[r]["dbt_marts"] \in {"none", "waiting"} => built[r] = 0
  /\ status[r]["dbt_marts"] = "done" => built[r] = Len(MARTS)
  /\ status[r]["serving_export"] \in {"none", "waiting"} <=> exporter[r].pc = "idle"
  /\ status[r]["serving_export"] = "running" <=> exporter[r].pc \in {"connect"} \union Working
  /\ status[r]["serving_export"] = "done" <=> exporter[r].pc = "exported"
  /\ status[r]["gtfs_static_snapshot"] \in {"none", "waiting"} => fetched[r] = 0

RunsInStep == \A r \in Runs : InStep(r)

RunInv == BaseInv /\ OneLone /\ RunsOrdered /\ RunsInStep

LEMMA UpstreamFacts ==
  /\ Upstream["gtfs_static_snapshot"] = {}
  /\ Upstream["gtfs_stop_schedule_staging"] = {"gtfs_static_snapshot"}
  /\ Upstream["dim_stop_schedule"] = {"gtfs_stop_schedule_staging"}
  /\ Upstream["bronze_vehicle_positions"] = {}
  /\ Upstream["silver_vehicle_positions"] = {"bronze_vehicle_positions"}
  /\ Upstream["fct_stop_arrival"] = {"silver_vehicle_positions"}
  /\ Upstream["fct_stop_otp"] = {"fct_stop_arrival", "dim_stop_schedule"}
  /\ Upstream["dbt_marts"] = {"fct_stop_otp"}
  /\ Upstream["serving_export"] = {"dbt_marts"}
BY DEF Upstream

LEMMA UpstreamAreAssets ==
  ASSUME NEW a \in Assets
  PROVE  Upstream[a] \subseteq Assets /\ a \notin Upstream[a]
BY UpstreamFacts, AssetFacts DEF AssetNames

\* A step of the run r, other than its launch.
Acts(r) ==
  \/ \E a \in Assets :
       \/ Start(r, a)
       \/ \E s \in {"done", "failed"} : Materialise(r, a, s)
       \/ FailsEarly(r, a)
  \/ BuildMart(r) \/ ExportStep(r)

Outside == UNCHANGED <<tables, runVars, history, path, files, exporter>>

LEMMA StepCases ==
  ASSUME BaseInv, [RefreshNext]_refreshVars
  PROVE  Outside \/ \E r \in Runs : Launch(r) \/ Acts(r)
<1>1. CASE Poll \/ Republish
  BY <1>1 DEF Poll, Republish, Change, Outside, servingVars
<1>2. CASE \E c \in Clients : ApiStep(c)
  BY <1>2 DEF ApiStep, Outside, Ask, Open, Select
<1>3. CASE UNCHANGED refreshVars
  BY <1>3 DEF refreshVars, Outside, servingVars
<1>4. ASSUME NEW r \in Runs, Fault(r)
      PROVE  Acts(r)
  BY <1>4, FaultCases DEF Acts, BaseInv
<1> QED
  BY <1>1, <1>2, <1>3, <1>4 DEF RefreshNext, RunStep, Acts

\* What an act of r does to the run, and to the others.
LEMMA ActFacts ==
  ASSUME BaseInv, NEW r \in Runs, Acts(r)
  PROVE  /\ Active(r)
         /\ began' = began /\ overlapped' = overlapped
         /\ \A q \in Runs : q # r =>
              /\ status'[q] = status[q] /\ input'[q] = input[q] /\ built'[q] = built[q]
              /\ fetched'[q] = fetched[q] /\ exporter'[q] = exporter[q]
         /\ \E a \in Assets, s \in Statuses \ {"none", "waiting"} :
              /\ \A b \in Assets : status'[r][b] = IF b = a THEN s ELSE status[r][b]
              /\ status[r][a] = "running" \/ Ready(r, a)
<1>1. ASSUME NEW a \in Assets, Start(r, a)
      PROVE  /\ UNCHANGED <<built, history, exporter>> /\ Ready(r, a)
             /\ \A q \in Runs : q # r => status'[q] = status[q] /\ input'[q] = input[q]
             /\ \A b \in Assets : status'[r][b] = IF b = a THEN "running" ELSE status[r][b]
  BY <1>1 DEF Start, Mark, servingVars, BaseInv, TablesTypeOK
<1>2. ASSUME NEW a \in Assets, NEW s \in {"done", "failed"}, Materialise(r, a, s)
      PROVE  /\ UNCHANGED <<built, began, overlapped, exporter>> /\ status[r][a] = "running"
             /\ \A q \in Runs : q # r =>
                  status'[q] = status[q] /\ input'[q] = input[q] /\ fetched'[q] = fetched[q]
             /\ \A b \in Assets : status'[r][b] = IF b = a THEN s ELSE status[r][b]
  BY <1>2 DEF Materialise, Commit, Mark, servingVars, BaseInv, TablesTypeOK
<1>3. ASSUME NEW a \in Assets, FailsEarly(r, a)
      PROVE  /\ UNCHANGED <<built, began, overlapped, fetched>> /\ status[r][a] = "running"
             /\ \A q \in Runs : q # r =>
                  status'[q] = status[q] /\ input'[q] = input[q] /\ exporter'[q] = exporter[q]
             /\ \A b \in Assets : status'[r][b] = IF b = a THEN "failed" ELSE status[r][b]
  BY <1>3 DEF FailsEarly, Mark, servingVars, BaseInv, TablesTypeOK, ServingInv, ExportInv, ExportTypeOK,
     ExportDie, End, Runs
<1>4. ASSUME BuildMart(r)
      PROVE  /\ UNCHANGED <<status, input, history, exporter>> /\ status[r]["dbt_marts"] = "running"
             /\ \A q \in Runs : q # r => built'[q] = built[q]
  BY <1>4 DEF BuildMart, servingVars, BaseInv, TablesTypeOK
<1>5. ASSUME ExportStep(r)
      PROVE  /\ UNCHANGED <<input, built, history>>
             /\ Ready(r, "serving_export") \/ status[r]["serving_export"] = "running"
             /\ \A q \in Runs : q # r => status'[q] = status[q] /\ exporter'[q] = exporter[q]
             /\ \E s \in {"done", "failed", "running"} : \A b \in Assets :
                  status'[r][b] = IF b = "serving_export" THEN s ELSE status[r][b]
  <2>1. exporter' \in [Exporters -> Place']
    BY <1>5, ExportKeeps DEF ExportStep, BaseInv, ServingInv, TablesTyped, TablesTypeOK, ExportInv,
       ExportTypeOK, Runs
  <2>2. \A q \in Runs : q # r => exporter'[q] = exporter[q]
    BY <1>5 DEF ExportStep, Export, ExportUnlink, ExportConnect, ExportLoad, ExportCreate,
       ExportInsert, ExportWindow, ExportCreateMeta, ExportInsertMeta, Step, End, Runs,
       BaseInv, ServingInv, ExportInv, ExportTypeOK
  <2> DEFINE s == CASE exporter'[r].pc = "exported" -> "done"
                    [] exporter'[r].pc = "died"     -> "failed"
                    [] OTHER                        -> "running"
  <2>3. s \in {"done", "failed", "running"} /\ Mark(r, "serving_export", s)
    BY <1>5 DEF ExportStep
  <2> HIDE DEF s
  <2>4. /\ \A q \in Runs : q # r => status'[q] = status[q]
        /\ \A b \in Assets : status'[r][b] = IF b = "serving_export" THEN s ELSE status[r][b]
    BY <2>3 DEF Mark, BaseInv, TablesTypeOK
  <2> QED
    BY <1>5, <2>2, <2>3, <2>4 DEF ExportStep
<1>6. /\ "dbt_marts" \in Assets /\ "serving_export" \in Assets
      /\ \A a \in Assets : status[r][a] \in Statuses
  BY AssetFacts DEF AssetNames, BaseInv, TablesTypeOK
<1>7. CASE \E a \in Assets : Start(r, a)
  BY <1>1, <1>7 DEF Active, Statuses, history
<1>8. CASE \E a \in Assets, s \in {"done", "failed"} : Materialise(r, a, s)
  BY <1>2, <1>8 DEF Active, Statuses
<1>9. CASE \E a \in Assets : FailsEarly(r, a)
  BY <1>3, <1>9 DEF Active, Statuses
<1>10. CASE BuildMart(r)
  BY <1>4, <1>6, <1>10 DEF Active, Statuses, history
<1>11. CASE ExportStep(r)
  BY <1>5, <1>6, <1>11 DEF Active, Statuses, history
<1> QED
  BY <1>7, <1>8, <1>9, <1>10, <1>11 DEF Acts

LEMMA OneLoneKept ==
  ASSUME BaseInv, OneLone, [RefreshNext]_refreshVars
  PROVE  OneLone'
<1>1. CASE Outside
  BY <1>1 DEF Outside, OneLone, Active, Ready, runVars, history
<1>2. ASSUME NEW r \in Runs, Launch(r)
      PROVE  OneLone'
  <2> DEFINE others == {q \in Runs : Active(q)}
  <2>1. \A q \in Runs : q # r => status'[q] = status[q]
    BY <1>2 DEF Launch, BaseInv, TablesTypeOK
  <2>2. \A q \in Runs : q # r /\ Active(q)' => q \in others
    BY <2>1 DEF Active, Ready
  <2>3. overlapped' = IF others = {} THEN overlapped ELSE overlapped \union others \union {r}
    BY <1>2 DEF Launch
  <2> HIDE DEF others
  <2> QED
    BY <2>2, <2>3 DEF OneLone
<1>3. ASSUME NEW r \in Runs, Acts(r)
      PROVE  OneLone'
  <2>1. \A q \in Runs : q # r => status'[q] = status[q]
    BY <1>3, ActFacts
  <2>2. \A q \in Runs : Active(q)' => Active(q)
    BY <1>3, <2>1, ActFacts DEF Active, Ready
  <2> QED
    BY <1>3, <2>2, ActFacts DEF OneLone
<1> QED
  BY <1>1, <1>2, <1>3, StepCases

LEMMA OrderKept ==
  ASSUME BaseInv, RunsOrdered, [RefreshNext]_refreshVars
  PROVE  RunsOrdered'
<1>1. CASE Outside
  BY <1>1 DEF Outside, RunsOrdered, runVars
<1>2. ASSUME NEW r \in Runs, Launch(r)
      PROVE  RunsOrdered'
  BY <1>2, UpstreamAreAssets DEF Launch, RunsOrdered, BaseInv, TablesTypeOK
<1>3. ASSUME NEW r \in Runs, Acts(r)
      PROVE  RunsOrdered'
  <2>1. PICK a \in Assets, s \in Statuses \ {"none", "waiting"} :
          /\ \A b \in Assets : status'[r][b] = IF b = a THEN s ELSE status[r][b]
          /\ status[r][a] = "running" \/ Ready(r, a)
    BY <1>3, ActFacts
  <2>2. \A u \in Upstream[a] : status[r][u] = "done"
    BY <2>1 DEF Ready, RunsOrdered
  <2>3. status[r][a] # "done"
    BY <2>1 DEF Ready
  <2>4. \A b \in Assets : status'[r][b] \in {"running", "done", "failed"} =>
          \A u \in Upstream[b] : status'[r][u] = "done"
    BY <2>1, <2>2, <2>3, UpstreamAreAssets DEF RunsOrdered
  <2>5. \A q \in Runs : q # r => status'[q] = status[q]
    BY <1>3, ActFacts
  <2> QED
    BY <2>4, <2>5 DEF RunsOrdered
<1> QED
  BY <1>1, <1>2, <1>3, StepCases

\* The last step of an export tells how it ended.
LEMMA ExportEnds ==
  ASSUME BaseInv, NEW r \in Runs, ExportStep(r)
  PROVE  LET pc == exporter'[r].pc
         IN /\ pc \in {"connect", "exported", "died"} \union Working
            /\ status'[r]["serving_export"] = CASE pc = "exported" -> "done"
                                                [] pc = "died"     -> "failed"
                                                [] OTHER           -> "running"
            /\ \A b \in Assets : b # "serving_export" => status'[r][b] = status[r][b]
<1>1. exporter[r] \in ExporterType /\ exporter \in [Exporters -> Place]
  BY DEF Runs, BaseInv, ServingInv, ExportInv, ExportTypeOK, Place
<1>2. exporter'[r].pc \in {"connect", "exported", "died"} \union Working
  BY <1>1 DEF ExportStep, Export, ExportUnlink, ExportConnect, ExportLoad, ExportCreate,
     ExportInsert, ExportWindow, ExportCreateMeta, ExportInsertMeta, Step, End, NoExport, Runs,
     Working, Writing, ExporterType
<1> DEFINE s == CASE exporter'[r].pc = "exported" -> "done"
                  [] exporter'[r].pc = "died"     -> "failed"
                  [] OTHER                        -> "running"
<1>3. Mark(r, "serving_export", s) /\ "serving_export" \in Assets
  BY AssetFacts DEF ExportStep, AssetNames
<1> HIDE DEF s
<1>4. /\ status'[r]["serving_export"] = s
      /\ \A b \in Assets : b # "serving_export" => status'[r][b] = status[r][b]
  BY <1>3 DEF Mark, BaseInv, TablesTypeOK
<1> QED
  BY <1>2, <1>4 DEF s

LEMMA InStepKept ==
  ASSUME BaseInv, NEW r \in Runs, InStep(r), Acts(r)
  PROVE  InStep(r)'
<1>1. \A a \in Assets : status[r][a] \in Statuses
  BY DEF BaseInv, TablesTypeOK
<1>2. /\ "dbt_marts" \in Assets /\ "serving_export" \in Assets
      /\ "gtfs_static_snapshot" \in Assets
  BY AssetFacts DEF AssetNames
<1>3. ASSUME NEW a \in Assets, Start(r, a)
      PROVE  InStep(r)'
  <2>1. /\ UNCHANGED <<built, fetched, exporter>> /\ a # "serving_export" /\ status[r][a] = "waiting"
        /\ \A b \in Assets : status'[r][b] = IF b = a THEN "running" ELSE status[r][b]
    BY <1>3 DEF Start, Mark, Ready, history, servingVars, BaseInv, TablesTypeOK
  <2> QED
    BY <1>2, <2>1 DEF InStep
<1>4. ASSUME NEW a \in Assets, NEW s \in {"done", "failed"}, Materialise(r, a, s)
      PROVE  InStep(r)'
  <2>1. /\ UNCHANGED <<built, exporter>> /\ a # "serving_export"
        /\ a = "dbt_marts" => built[r] = Len(MARTS)
        /\ a # "gtfs_static_snapshot" => fetched' = fetched
        /\ \A b \in Assets : status'[r][b] = IF b = a THEN s ELSE status[r][b]
    BY <1>4 DEF Materialise, Commit, Mark, servingVars, BaseInv, TablesTypeOK
  <2> QED
    BY <1>2, <2>1 DEF InStep
<1>5. ASSUME NEW a \in Assets, FailsEarly(r, a)
      PROVE  InStep(r)'
  <2>1. /\ UNCHANGED <<built, fetched>>
        /\ \A b \in Assets : status'[r][b] = IF b = a THEN "failed" ELSE status[r][b]
        /\ IF a = "serving_export" THEN exporter'[r].pc = "died" ELSE exporter' = exporter
    BY <1>5 DEF FailsEarly, Mark, ExportDie, End, NoExport, servingVars, BaseInv, TablesTypeOK, Runs,
       ServingInv, ExportInv, ExportTypeOK
  <2> QED
    BY <1>2, <2>1 DEF InStep, Working, Writing
<1>6. CASE BuildMart(r)
  <2>1. /\ UNCHANGED <<status, fetched, exporter>> /\ status[r]["dbt_marts"] = "running"
        /\ built[r] < Len(MARTS) /\ built'[r] = built[r] + 1 /\ built[r] \in Nat
    BY <1>6 DEF BuildMart, history, servingVars, BaseInv, TablesTypeOK
  <2> QED
    BY <2>1, MartFacts DEF InStep
<1>7. CASE ExportStep(r)
  <2>1. UNCHANGED <<built, fetched>>
    BY <1>7 DEF ExportStep, history
  <2> DEFINE pc == exporter'[r].pc
  <2>2. pc = "exported" => status'[r]["serving_export"] = "done"
    BY <1>7, ExportEnds
  <2>3. pc = "died" => status'[r]["serving_export"] = "failed"
    BY <1>7, ExportEnds
  <2>4. pc \in {"connect"} \union Working => status'[r]["serving_export"] = "running"
    BY <1>7, ExportEnds DEF Working, Writing
  <2>5. pc \in {"connect", "exported", "died"} \union Working
    BY <1>7, ExportEnds
  <2>6. \A b \in Assets : b # "serving_export" => status'[r][b] = status[r][b]
    BY <1>7, ExportEnds
  <2> HIDE DEF pc
  <2>7. InStep(r)' <=>
          /\ built'[r] <= Len(MARTS)
          /\ status'[r]["dbt_marts"] \in {"none", "waiting"} => built'[r] = 0
          /\ status'[r]["dbt_marts"] = "done" => built'[r] = Len(MARTS)
          /\ status'[r]["serving_export"] \in {"none", "waiting"} <=> pc = "idle"
          /\ status'[r]["serving_export"] = "running" <=> pc \in {"connect"} \union Working
          /\ status'[r]["serving_export"] = "done" <=> pc = "exported"
          /\ status'[r]["gtfs_static_snapshot"] \in {"none", "waiting"} => fetched'[r] = 0
    BY DEF InStep, pc
  <2> QED
    BY <1>2, <2>1, <2>2, <2>3, <2>4, <2>5, <2>6, <2>7 DEF InStep, Working, Writing
<1> QED
  BY <1>3, <1>4, <1>5, <1>6, <1>7 DEF Acts

LEMMA RunStarts ==
  ASSUME RefreshInit
  PROVE  RunInv
<1>1. BaseInv
  BY BaseStarts
<1>2. OneLone /\ RunsOrdered
  BY UpstreamAreAssets DEF RefreshInit, OneLone, RunsOrdered, Active, Ready
<1>3. RunsInStep
  BY AssetFacts, MartFacts
     DEF RefreshInit, ServingInit, NoExport, RunsInStep, InStep, AssetNames, Runs, Working, Writing
<1> QED
  BY <1>1, <1>2, <1>3 DEF RunInv

LEMMA LaunchFacts ==
  ASSUME BaseInv, NEW r \in Runs, Launch(r)
  PROVE  /\ Unlaunched(r)
         /\ \A q \in Runs, b \in Assets :
              status'[q][b] = IF q = r THEN "waiting" ELSE status[q][b]
         /\ UNCHANGED <<sources, tables, input, built, fetched, servingVars>>
         /\ overlapped \subseteq overlapped'
         /\ \A q \in Runs : Active(q) => q \in overlapped'
         /\ (\E q \in Runs : Active(q)) => r \in overlapped'
         /\ began' = [began EXCEPT ![r] = archive]
<1> DEFINE others == {q \in Runs : Active(q)}
<1>1. overlapped' = IF others = {} THEN overlapped ELSE overlapped \union others \union {r}
  BY DEF Launch
<1>2. /\ Unlaunched(r) /\ UNCHANGED <<sources, tables, input, built, fetched, servingVars>>
      /\ \A q \in Runs, b \in Assets : status'[q][b] = IF q = r THEN "waiting" ELSE status[q][b]
      /\ began' = [began EXCEPT ![r] = archive]
  BY DEF Launch, BaseInv, TablesTypeOK
<1> QED
  BY <1>1, <1>2

LEMMA RunKeeps ==
  ASSUME RunInv, [RefreshNext]_refreshVars
  PROVE  RunInv' /\ PublishedStays
<1>1. BaseInv' /\ PublishedStays /\ OneLone' /\ RunsOrdered'
  BY BaseKeeps, OneLoneKept, OrderKept DEF RunInv
<1>2. CASE Outside
  BY <1>1, <1>2 DEF Outside, RunInv, RunsInStep, InStep, runVars, history
<1>3. ASSUME NEW r \in Runs, Launch(r)
      PROVE  RunsInStep'
  <2>1. /\ Unlaunched(r) /\ UNCHANGED <<built, fetched, exporter>>
        /\ \A q \in Runs, b \in Assets :
             status'[q][b] = IF q = r THEN "waiting" ELSE status[q][b]
    BY <1>3, LaunchFacts DEF RunInv, servingVars
  <2>2. {"dbt_marts", "serving_export", "gtfs_static_snapshot"} \subseteq Assets
    BY AssetFacts DEF AssetNames
  <2>3. ASSUME NEW q \in Runs
        PROVE  InStep(q)'
    BY <2>1, <2>2, MartFacts DEF RunInv, RunsInStep, InStep, Unlaunched, Working, Writing
  <2> QED
    BY <2>3 DEF RunsInStep
<1>4. ASSUME NEW r \in Runs, Acts(r)
      PROVE  RunsInStep'
  <2>1. InStep(r)'
    BY <1>4, InStepKept DEF RunInv, RunsInStep
  <2>2. ASSUME NEW q \in Runs, q # r
        PROVE  InStep(q)'
    BY <1>4, <2>2, ActFacts DEF RunInv, RunsInStep, InStep
  <2> QED
    BY <2>1, <2>2 DEF RunsInStep
<1> QED
  BY <1>1, <1>2, <1>3, <1>4, StepCases DEF RunInv

---------------------------------------------------------------------------
(* What a lone run has in the tables: nobody else writes them.             *)

AtLeast(v, arrivals, schedule) == v.arrivals >= arrivals /\ v.schedule >= schedule

Progress(r) ==
  LET s == status[r]
      read == input[r]
  IN /\ s["gtfs_static_snapshot"] = "done" => fetched[r] \in extracted
     /\ s["gtfs_stop_schedule_staging"] = "running" =>
          read["gtfs_stop_schedule_staging"].schedule >= fetched[r]
     /\ s["gtfs_stop_schedule_staging"] = "done" => staging >= fetched[r]
     /\ s["dim_stop_schedule"] = "running" => read["dim_stop_schedule"].schedule >= fetched[r]
     /\ s["dim_stop_schedule"] = "done" => dim >= fetched[r]
     /\ s["bronze_vehicle_positions"] = "running" =>
          read["bronze_vehicle_positions"].arrivals >= began[r]
     /\ s["bronze_vehicle_positions"] = "done" => bronze >= began[r]
     /\ s["silver_vehicle_positions"] = "running" =>
          read["silver_vehicle_positions"].arrivals >= began[r]
     /\ s["silver_vehicle_positions"] = "done" => silver >= began[r]
     /\ s["fct_stop_arrival"] = "running" => read["fct_stop_arrival"].arrivals >= began[r]
     /\ s["fct_stop_arrival"] = "done" => arrival >= began[r]
     /\ s["fct_stop_otp"] = "running" =>
          /\ AtLeast(read["fct_stop_otp"], began[r], fetched[r])
          /\ read["fct_stop_otp"].arrivals = arrival
     /\ s["fct_stop_otp"] = "done" =>
          /\ AtLeast(otp, began[r], fetched[r])
          /\ otp.arrivals = arrival
     /\ s["dbt_marts"] \in {"running", "done"} =>
          \A i \in DOMAIN MARTS : i <= built[r] => marts[MARTS[i]] = otp

LoneProgress == \A r \in Runs : (r \notin overlapped /\ Active(r)) => Progress(r)

BeganBefore == \A r \in Runs : began[r] <= archive

LEMMA Chain ==
  ASSUME RunsOrdered, NEW r \in Runs
  PROVE  LET s == status[r]
             began0(a) == s[a] \in {"running", "done", "failed"}
         IN /\ began0("gtfs_stop_schedule_staging") => s["gtfs_static_snapshot"] = "done"
            /\ began0("dim_stop_schedule") => s["gtfs_stop_schedule_staging"] = "done"
            /\ began0("silver_vehicle_positions") => s["bronze_vehicle_positions"] = "done"
            /\ began0("fct_stop_arrival") => s["silver_vehicle_positions"] = "done"
            /\ began0("fct_stop_otp") => s["fct_stop_arrival"] = "done" /\ s["dim_stop_schedule"] = "done"
            /\ began0("dbt_marts") => s["fct_stop_otp"] = "done"
            /\ began0("serving_export") => s["dbt_marts"] = "done"
BY UpstreamFacts, AssetFacts DEF RunsOrdered, AssetNames

LEMMA StartProgress ==
  ASSUME BaseInv, RunsOrdered, BeganBefore, NEW r \in Runs, Progress(r), InStep(r),
         NEW a \in Assets, Start(r, a)
  PROVE  Progress(r)'
<1>1. PICK read \in Readings(a) : input' = [input EXCEPT ![r][a] = read]
  BY DEF Start
<1>2. read \in Versions
  BY ReadingFacts DEF BaseInv
<1>a. TablesTypeOK
  BY DEF BaseInv
<1>b. \A b \in Assets : status'[r][b] = IF b = a THEN "running" ELSE status[r][b]
  <2>1. Mark(r, a, "running") /\ "running" \in Statuses
    BY DEF Start, Statuses
  <2> QED
    BY <1>a, <2>1, MarkFacts
<1>c. \A b \in Assets : input'[r][b] = IF b = a THEN read ELSE input[r][b]
  BY <1>a, <1>1, <1>2, InputFacts
<1>3. /\ \A b \in Assets : status'[r][b] = IF b = a THEN "running" ELSE status[r][b]
      /\ \A b \in Assets : input'[r][b] = IF b = a THEN read ELSE input[r][b]
  BY <1>b, <1>c
<1>4. UNCHANGED <<tables, built, history>> /\ status[r][a] = "waiting"
  BY DEF Start, Ready
<1>5. \A u \in Upstream[a] : status[r][u] = "done"
  BY DEF Start, Ready
<1>6. began[r] <= archive /\ a # "serving_export"
  BY DEF Start, BeganBefore
<1>7. CASE a = "gtfs_static_snapshot"
  BY <1>3, <1>4, <1>7, AssetFacts DEF Progress, AssetNames, tables, history
<1>8. CASE a = "gtfs_stop_schedule_staging"
  <2>1. read.schedule >= fetched[r]
    BY <1>5, <1>8, UpstreamFacts DEF Readings, OfSchedule, Progress
  <2> QED
    BY <1>3, <1>4, <1>8, <2>1, AssetFacts DEF Progress, AssetNames, tables, history
<1>9. CASE a = "dim_stop_schedule"
  <2>1. read.schedule >= fetched[r]
    BY <1>5, <1>9, UpstreamFacts DEF Readings, OfSchedule, Progress
  <2> QED
    BY <1>3, <1>4, <1>9, <2>1, AssetFacts DEF Progress, AssetNames, tables, history
<1>10. CASE a = "bronze_vehicle_positions"
  <2>1. read.arrivals >= began[r]
    BY <1>6, <1>10 DEF Readings, OfArrivals, BaseInv, TablesTypeOK
  <2> QED
    BY <1>3, <1>4, <1>10, <2>1, AssetFacts DEF Progress, AssetNames, tables, history
<1>11. CASE a = "silver_vehicle_positions"
  <2>1. read.arrivals >= began[r]
    BY <1>5, <1>11, UpstreamFacts DEF Readings, OfArrivals, Progress
  <2> QED
    BY <1>3, <1>4, <1>11, <2>1, AssetFacts DEF Progress, AssetNames, tables, history
<1>12. CASE a = "fct_stop_arrival"
  <2>1. read.arrivals >= began[r]
    BY <1>5, <1>12, UpstreamFacts DEF Readings, OfArrivals, Progress
  <2> QED
    BY <1>3, <1>4, <1>12, <2>1, AssetFacts DEF Progress, AssetNames, tables, history
<1>13. CASE a = "fct_stop_otp"
  <2>1. AtLeast(read, began[r], fetched[r]) /\ read.arrivals = arrival
    BY <1>5, <1>13, UpstreamFacts DEF Readings, Progress, AtLeast
  <2> QED
    BY <1>3, <1>4, <1>13, <2>1, AssetFacts DEF Progress, AssetNames, tables, history, AtLeast
<1>14. CASE a = "dbt_marts"
  <2>1. \A i \in DOMAIN MARTS : ~(i <= built[r])
    BY <1>4, <1>14, MartFacts DEF InStep
  <2> QED
    BY <1>3, <1>4, <1>14, <2>1, AssetFacts DEF Progress, AssetNames, tables, history, AtLeast
<1> QED
  BY <1>6, <1>7, <1>8, <1>9, <1>10, <1>11, <1>12, <1>13, <1>14, AssetFacts DEF AssetNames

LEMMA FinishProgress ==
  ASSUME BaseInv, RunsOrdered, NEW r \in Runs, Progress(r), InStep(r),
         NEW a \in Assets, NEW s \in {"done", "failed"}, Materialise(r, a, s)
  PROVE  Progress(r)'
<1>1. /\ \A b \in Assets : status'[r][b] = IF b = a THEN s ELSE status[r][b]
      /\ \A b \in Assets : b # a => input'[r][b] = input[r][b]
  BY MarkFacts, InputFacts, NothingFact DEF Materialise, BaseInv, Statuses
<1>2. UNCHANGED <<marts, built, began>> /\ status[r][a] = "running" /\ a # "serving_export"
  BY DEF Materialise
<1>3. input[r][a] \in Versions
  BY DEF BaseInv, TablesTypeOK
<1>4. \A m, n \in Nat : Later(m, n) >= m /\ Later(m, n) >= n
  BY DEF Later
<1>5. began[r] \in Nat /\ bronze \in Nat /\ arrival \in Nat
  BY DEF BaseInv, TablesTypeOK
<1>6. CASE a = "gtfs_static_snapshot"
  BY <1>1, <1>2, <1>6, Chain, AssetFacts DEF Progress, AssetNames, Materialise, Commit, BaseInv, TablesTypeOK
<1>7. CASE a = "gtfs_stop_schedule_staging"
  BY <1>1, <1>2, <1>7, Chain, AssetFacts DEF Progress, AssetNames, Materialise, Commit
<1>8. CASE a = "dim_stop_schedule"
  BY <1>1, <1>2, <1>8, Chain, AssetFacts DEF Progress, AssetNames, Materialise, Commit
<1>9. CASE a = "bronze_vehicle_positions"
  <2>1. /\ bronze' = Later(bronze, input[r][a].arrivals)
        /\ UNCHANGED <<extracted, staging, dim, silver, arrival, otp, fetched>>
    BY <1>9 DEF Materialise, Commit
  <2>2. input[r][a].arrivals \in Nat /\ input[r][a].arrivals >= began[r]
    BY <1>2, <1>3, <1>9 DEF Progress, Versions
  <2>3. bronze' >= began'[r]
    BY <1>2, <1>5, <2>1, <2>2 DEF Later
  <2> QED
    BY <1>1, <1>2, <1>9, <2>1, <2>3, Chain, AssetFacts DEF Progress, AssetNames
<1>10. CASE a = "silver_vehicle_positions"
  BY <1>1, <1>2, <1>10, Chain, AssetFacts DEF Progress, AssetNames, Materialise, Commit
<1>11. CASE a = "fct_stop_arrival"
  <2>1. /\ arrival' = Later(arrival, input[r][a].arrivals)
        /\ UNCHANGED <<extracted, staging, dim, bronze, silver, otp, fetched>>
    BY <1>11 DEF Materialise, Commit
  <2>2. input[r][a].arrivals \in Nat /\ input[r][a].arrivals >= began[r]
    BY <1>2, <1>3, <1>11 DEF Progress, Versions
  <2>3. arrival' >= began'[r]
    BY <1>2, <1>5, <2>1, <2>2 DEF Later
  <2> QED
    BY <1>1, <1>2, <1>11, <2>1, <2>3, Chain, AssetFacts DEF Progress, AssetNames
<1>12. CASE a = "fct_stop_otp"
  BY <1>1, <1>2, <1>12, Chain, AssetFacts DEF Progress, AssetNames, Materialise, Commit
<1>13. CASE a = "dbt_marts"
  BY <1>1, <1>2, <1>13, Chain, AssetFacts DEF Progress, AssetNames, Materialise, Commit
<1> QED
  BY <1>2, <1>6, <1>7, <1>8, <1>9, <1>10, <1>11, <1>12, <1>13, AssetFacts DEF AssetNames

LEMMA BuildProgress ==
  ASSUME BaseInv, NEW r \in Runs, Progress(r), BuildMart(r)
  PROVE  Progress(r)'
<1>1. /\ UNCHANGED <<extracted, staging, dim, bronze, silver, arrival, otp, status, input, history>>
      /\ status[r]["dbt_marts"] = "running" /\ built[r] + 1 \in DOMAIN MARTS
      /\ built'[r] = built[r] + 1 /\ built[r] \in Nat
      /\ \A m \in Marts : marts'[m] = IF m = MARTS[built[r] + 1] THEN otp ELSE marts[m]
  BY MartFacts DEF BuildMart, BaseInv, TablesTypeOK
<1>2. ASSUME NEW i \in DOMAIN MARTS, i <= built'[r]
      PROVE  marts'[MARTS[i]] = otp
  BY <1>1, <1>2, MartFacts DEF Progress
<1> QED
  BY <1>1, <1>2 DEF Progress, history, AtLeast

LEMMA FailProgress ==
  ASSUME BaseInv, NEW r \in Runs, Progress(r), NEW a \in Assets, FailsEarly(r, a)
  PROVE  Progress(r)'
<1>1. /\ \A b \in Assets : status'[r][b] = IF b = a THEN "failed" ELSE status[r][b]
      /\ \A b \in Assets : b # a => input'[r][b] = input[r][b]
      /\ UNCHANGED <<tables, built, began, fetched>>
  BY MarkFacts, InputFacts, NothingFact DEF FailsEarly, BaseInv, Statuses
<1> QED
  BY <1>1, AssetFacts DEF Progress, tables, AtLeast, AssetNames

LEMMA ExportProgress ==
  ASSUME BaseInv, NEW r \in Runs, Progress(r), ExportStep(r)
  PROVE  Progress(r)'
<1>1. /\ UNCHANGED <<tables, input, built, history>>
      /\ \A b \in Assets : b # "serving_export" => status'[r][b] = status[r][b]
  BY ExportEnds DEF ExportStep
<1> QED
  BY <1>1, AssetFacts DEF Progress, tables, history, AtLeast, AssetNames

LoneInv == RunInv /\ LoneProgress /\ BeganBefore

LEMMA LoneStarts ==
  ASSUME RefreshInit
  PROVE  LoneInv
<1>1. LoneProgress /\ BeganBefore
  BY DEF RefreshInit, LoneProgress, BeganBefore, Active, Ready
<1> QED
  BY <1>1, RunStarts DEF LoneInv

LEMMA BeganKept ==
  ASSUME BaseInv, BeganBefore, [RefreshNext]_refreshVars
  PROVE  BeganBefore'
<1>1. archive \in Nat /\ began \in [Runs -> Nat]
  BY DEF BaseInv, TablesTypeOK
<1>2. CASE Poll \/ Republish
  BY <1>1, <1>2 DEF Poll, Republish, Change, history, BeganBefore
<1>3. ASSUME NEW r \in Runs, Launch(r)
      PROVE  BeganBefore'
  BY <1>1, <1>3 DEF Launch, sources, BeganBefore
<1>4. ASSUME NEW r \in Runs, Acts(r)
      PROVE  BeganBefore'
  <2>1. archive' = archive
    BY <1>4 DEF Acts, Start, Materialise, FailsEarly, BuildMart, ExportStep, sources
  <2> QED
    BY <1>4, <2>1, ActFacts DEF BeganBefore
<1>5. CASE (\E c \in Clients : ApiStep(c)) \/ UNCHANGED refreshVars
  BY <1>5 DEF ApiStep, sources, history, refreshVars, BeganBefore
<1>6. ASSUME NEW r \in Runs, RunStep(r) \/ Fault(r)
      PROVE  Acts(r)
  BY <1>6, FaultCases DEF RunStep, Acts, BaseInv
<1> QED
  BY <1>2, <1>3, <1>4, <1>5, <1>6 DEF RefreshNext

\* Only the run that acts may be lone, and its own act keeps what it has.
LEMMA LoneKept ==
  ASSUME LoneInv, [RefreshNext]_refreshVars
  PROVE  LoneProgress'
<1>1. BaseInv /\ OneLone /\ RunsOrdered /\ RunsInStep /\ LoneProgress /\ BeganBefore
  BY DEF LoneInv, RunInv
<1>2. CASE Outside
  BY <1>1, <1>2 DEF Outside, LoneProgress, Active, Ready, Progress, AtLeast, tables, runVars, history
<1>3. ASSUME NEW r \in Runs, Launch(r)
      PROVE  LoneProgress'
  <2>1. /\ \A q \in Runs, b \in Assets : status'[q][b] = IF q = r THEN "waiting" ELSE status[q][b]
        /\ \A q \in Runs : Active(q) => q \in overlapped'
    BY <1>1, <1>3, LaunchFacts
  <2>2. Progress(r)'
    BY <2>1, AssetFacts DEF Progress, AssetNames
  <2>3. \A q \in Runs : q # r /\ Active(q)' => Active(q)
    BY <2>1, UpstreamAreAssets DEF Active, Ready
  <2> QED
    BY <2>1, <2>2, <2>3 DEF LoneProgress
<1>4. ASSUME NEW r \in Runs, Acts(r), NEW q \in Runs, q \notin overlapped', Active(q)'
      PROVE  Progress(q)'
  <2>1. Active(r) /\ overlapped' = overlapped /\ (q # r => status'[q] = status[q])
    BY <1>1, <1>4, ActFacts
  <2>2. Active(q)
    BY <1>4, <2>1 DEF Active, Ready
  <2>3. q = r /\ Progress(r) /\ InStep(r)
    BY <1>1, <1>4, <2>1, <2>2 DEF OneLone, LoneProgress, RunsInStep
  <2>4. CASE \E a \in Assets : Start(r, a)
    BY <1>1, <2>3, <2>4, StartProgress
  <2>5. CASE \E a \in Assets, s \in {"done", "failed"} : Materialise(r, a, s)
    BY <1>1, <2>3, <2>5, FinishProgress
  <2>6. CASE \E a \in Assets : FailsEarly(r, a)
    BY <1>1, <2>3, <2>6, FailProgress
  <2>7. CASE BuildMart(r)
    BY <1>1, <2>3, <2>7, BuildProgress
  <2>8. CASE ExportStep(r)
    BY <1>1, <2>3, <2>8, ExportProgress
  <2> QED
    BY <1>4, <2>4, <2>5, <2>6, <2>7, <2>8 DEF Acts
<1> QED
  BY <1>1, <1>2, <1>3, <1>4, StepCases DEF LoneProgress

LEMMA LoneKeeps ==
  ASSUME LoneInv, [RefreshNext]_refreshVars
  PROVE  LoneInv' /\ PublishedStays
BY RunKeeps, BeganKept, LoneKept DEF LoneInv, RunInv

---------------------------------------------------------------------------
(* Files and the runs they are of.  A lone run creates its file itself,    *)
(* and nobody else opens it before it is written.                          *)

WorkingOn(x) == exporter[x].pc \in Working

AloneAtThePath ==
  \A x \in Runs : exporter[x].pc = "connect" =>
    path = Nobody \/ {x, files[path].by} \subseteq overlapped

OwnFile ==
  \A x \in Runs : WorkingOn(x) =>
    LET by == files[exporter[x].file].by
    IN by = x \/ {x, by} \subseteq overlapped

CreatorsStarted == \A f \in DOMAIN files : exporter[files[f].by].pc \notin {"idle", "connect"}

OneFileEach ==
  \A f \in DOMAIN files :
    LET r == files[f].by
    IN (r \notin overlapped /\ WorkingOn(r)) => exporter[r].file = f

\* All that a lone export has read is of one fct_stop_otp.
OneVersion(x) ==
  /\ \A i \in DOMAIN MARTS : i < exporter[x].next => Table(x)[MARTS[i]] = otp
  /\ exporter[x].pc \in {"create", "insert", "create_meta", "insert_meta"} => exporter[x].held = otp

LoneExports == \A x \in Runs : (x \notin overlapped /\ WorkingOn(x)) => OneVersion(x)

FilesPlaced == AloneAtThePath /\ OwnFile /\ CreatorsStarted /\ OneFileEach

FilesTell == LoneExports /\ WindowIsOfTheRows /\ RefreshCoversItsStart

FileInv == LoneInv /\ FilesPlaced /\ FilesTell

LEMMA LoneFacts ==
  ASSUME LoneInv, NEW r \in Runs, WorkingOn(r) \/ exporter[r].pc \in {"connect", "exported"}
  PROVE  /\ \A a \in Assets : a # "serving_export" => status[r][a] = "done"
         /\ built[r] = Len(MARTS)
         /\ exporter[r].pc # "exported" => Active(r) /\ status[r]["serving_export"] = "running"
<1>1. RunsOrdered /\ InStep(r)
  BY DEF LoneInv, RunInv, RunsInStep
<1>2. status[r]["serving_export"] \in {"running", "done"}
  BY <1>1 DEF InStep, WorkingOn
<1>3. \A a \in Assets : a # "serving_export" => status[r][a] = "done"
  BY <1>1, <1>2, Chain, AssetFacts DEF AssetNames
<1>4. built[r] = Len(MARTS)
  BY <1>1, <1>3, AssetFacts DEF InStep, AssetNames
<1>5. exporter[r].pc # "exported" => status[r]["serving_export"] = "running"
  BY <1>1 DEF InStep, WorkingOn
<1> QED
  BY <1>3, <1>4, <1>5, AssetFacts DEF Active, AssetNames

\* Acts of r that are not its export's leave the files alone, and r exports
\* nothing.
LEMMA TableActs ==
  ASSUME LoneInv, NEW r \in Runs,
         \/ BuildMart(r)
         \/ \E a \in Assets :
              \/ Start(r, a)
              \/ \E s \in {"done", "failed"} : Materialise(r, a, s)
              \/ a # "serving_export" /\ FailsEarly(r, a)
  PROVE  /\ UNCHANGED <<path, files, exporter>>
         /\ ~WorkingOn(r) /\ exporter[r].pc \notin {"connect", "exported"}
<1>1. UNCHANGED <<path, files, exporter>>
  BY DEF BuildMart, Start, Materialise, FailsEarly, servingVars
<1>2. \E a \in Assets : a # "serving_export" /\ status[r][a] # "done"
  BY AssetFacts DEF BuildMart, Start, Materialise, FailsEarly, Ready, AssetNames
<1> QED
  BY <1>1, <1>2, LoneFacts

\* The acts of an export, as the files see them.
ExportMoves(r) ==
  \/ ExportUnlink(r) \/ ExportConnect(r)
  \/ /\ WorkingOn(r) /\ WorkingOn(r)' /\ exporter'[r].file = exporter[r].file
     /\ path' = path /\ Len(files') = Len(files)
     /\ \A f \in DOMAIN files : files'[f].by = files[f].by
  \/ /\ exporter[r].pc = "connect" \/ WorkingOn(r)
     /\ exporter'[r].pc \in {"exported", "died"}
     /\ path' = path /\ Len(files') = Len(files)
     /\ \A f \in DOMAIN files : files'[f].by = files[f].by

LEMMA StepFacts ==
  ASSUME ExportInv, NEW x \in Exporters, NEW pc, Step(x, pc)
  PROVE  /\ exporter'[x].pc = pc /\ exporter'[x].file = exporter[x].file
         /\ exporter'[x].next = exporter[x].next /\ exporter'[x].held = exporter[x].held
<1> DEFINE old == exporter[x]
           e == [old EXCEPT !.pc = pc]
<1>1. exporter'[x] = e /\ old \in ExporterType
  BY DEF Step, ExportInv, ExportTypeOK, Place
<1> HIDE DEF old
<1>2. e \in [pc : {pc}, file : {old.file}, next : {old.next}, held : {old.held}]
  BY <1>1 DEF ExporterType
<1> HIDE DEF e
<1>3. e.pc = pc /\ e.file = old.file /\ e.next = old.next /\ e.held = old.held
  BY <1>2
<1> QED
  BY <1>1, <1>3 DEF old

LEMMA ExportMoved ==
  ASSUME ExportInv, NEW r \in Runs, Export(r) \/ ExportDie(r)
  PROVE  /\ ExportMoves(r)
         /\ \A x \in Runs : x # r => exporter'[x] = exporter[x]
<1>1. exporter[r] \in Place /\ exporter \in [Runs -> Place] /\ exporter[r] \in ExporterType
  BY DEF ExportInv, ExportTypeOK, Runs, Place
<1>2. \A x \in Runs : x # r => exporter'[x] = exporter[x]
  BY <1>1 DEF Export, ExportUnlink, ExportConnect, ExportLoad, ExportCreate, ExportInsert,
     ExportWindow, ExportCreateMeta, ExportInsertMeta, ExportDie, Step, End, Runs
<1>3. CASE ExportDie(r)
  BY <1>1, <1>3 DEF ExportDie, End, NoExport, ExportMoves, WorkingOn, Place, ExporterType, ExporterPcs
<1>4. CASE ExportLoad(r) \/ ExportWindow(r)
  BY <1>1, <1>4 DEF ExportLoad, ExportWindow, ExportMoves, WorkingOn, Working, Writing, Place, ExporterType
<1>5. ASSUME NEW t \in Tables, NEW content \in Contents, Put(r, t, content), WorkingOn(r)
      PROVE  Len(files') = Len(files) /\ \A f \in DOMAIN files : files'[f].by = files[f].by
  BY <1>1, <1>5, PutFacts DEF ExportInv, Place, WorkingOn, Runs
<1>6. WorkingOn(r) => Missing \in Contents /\ Empty \in Contents /\ "meta" \in Tables
  BY ContentFacts, MartFacts
<1>7. exporter[r].pc \in {"create", "insert"} => ThisMart(r) \in Tables
  BY <1>1, MartFacts DEF Place, ThisMart
<1>8. exporter[r].pc \in {"insert", "insert_meta"} => exporter[r].held \in Contents
  BY <1>1, ContentFacts DEF Place
<1>9. CASE ExportCreate(r)
  <2>1. exporter[r].pc = "create" /\ WorkingOn(r) /\ path' = path
    BY <1>9 DEF ExportCreate, WorkingOn, Working
  <2>2. CASE Put(r, ThisMart(r), Empty) /\ Step(r, "insert")
    <3>1. Len(files') = Len(files) /\ \A f \in DOMAIN files : files'[f].by = files[f].by
      BY <1>5, <1>6, <1>7, <2>1, <2>2
    <3>2. exporter'[r].pc = "insert" /\ exporter'[r].file = exporter[r].file
      BY <2>2, StepFacts DEF Runs
    <3> QED
      BY <1>2, <2>1, <3>1, <3>2 DEF ExportMoves, WorkingOn, Working, Writing
  <2>3. CASE End(r, "died") /\ files' = files
    BY <1>1, <1>2, <2>1, <2>3 DEF End, NoExport, ExportMoves
  <2> QED
    BY <1>9, <2>2, <2>3 DEF ExportCreate
<1>10. CASE ExportInsert(r)
  <2>1. exporter'[r].file = exporter[r].file /\ exporter'[r].pc \in {"window", "load"}
    <3> DEFINE old == exporter[r]
               pc == IF old.next = Len(MARTS) THEN "window" ELSE "load"
               e == [old EXCEPT !.pc = pc, !.next = @ + 1, !.held = Missing]
    <3>1. exporter'[r] = e /\ old \in ExporterType
      BY <1>1, <1>10 DEF ExportInsert, Runs
    <3> HIDE DEF old, pc
    <3>2. e \in [pc : {pc}, file : {old.file}, next : {old.next + 1}, held : {Missing}]
      BY <3>1 DEF ExporterType
    <3> HIDE DEF e
    <3>3. e.file = old.file /\ e.pc = pc
      BY <3>2
    <3> QED
      BY <3>1, <3>3 DEF old, pc
  <2>2. exporter[r].pc = "insert" /\ WorkingOn(r) /\ path' = path
    BY <1>10 DEF ExportInsert, WorkingOn, Working, Writing
  <2>3. Len(files') = Len(files) /\ \A f \in DOMAIN files : files'[f].by = files[f].by
    BY <1>5, <1>7, <1>8, <1>10, <2>2 DEF ExportInsert
  <2> QED
    BY <1>2, <2>1, <2>2, <2>3 DEF ExportMoves, WorkingOn, Working, Writing
<1>11. CASE ExportCreateMeta(r)
  <2>1. exporter[r].pc = "create_meta" /\ WorkingOn(r) /\ path' = path
    BY <1>11 DEF ExportCreateMeta, WorkingOn, Working, Writing
  <2>2. CASE Put(r, "meta", Empty) /\ Step(r, "insert_meta")
    <3>1. Len(files') = Len(files) /\ \A f \in DOMAIN files : files'[f].by = files[f].by
      BY <1>5, <1>6, <2>1, <2>2
    <3>2. exporter'[r].pc = "insert_meta" /\ exporter'[r].file = exporter[r].file
      BY <2>2, StepFacts DEF Runs
    <3> QED
      BY <1>2, <2>1, <3>1, <3>2 DEF ExportMoves, WorkingOn, Working, Writing
  <2>3. CASE End(r, "died") /\ files' = files
    BY <1>1, <1>2, <2>1, <2>3 DEF End, NoExport, ExportMoves
  <2> QED
    BY <1>11, <2>2, <2>3 DEF ExportCreateMeta
<1>12. CASE ExportInsertMeta(r)
  BY <1>1, <1>5, <1>6, <1>8, <1>12
     DEF ExportInsertMeta, End, NoExport, ExportMoves, WorkingOn, Working, Writing
<1> QED
  BY <1>2, <1>3, <1>4, <1>9, <1>10, <1>11, <1>12 DEF Export, ExportMoves

\* A created file comes last, by the run that created it.
LEMMA ConnectFacts ==
  ASSUME ExportInv, NEW r \in Runs, ExportConnect(r)
  PROVE  /\ exporter'[r].pc = "load" /\ exporter'[r].file = path' /\ path' \in DOMAIN files'
         /\ exporter'[r].next = exporter[r].next
         /\ \A f \in DOMAIN files : f \in DOMAIN files' /\ files'[f] = files[f]
         /\ \/ path # Nobody /\ UNCHANGED <<files, path>>
            \/ /\ path = Nobody /\ files'[path'].by = r /\ path' \notin DOMAIN files
               /\ files'[path'].table["meta"] = Missing
               /\ \A f \in DOMAIN files' : f = path' \/ f \in DOMAIN files
<1>1. /\ exporter'[r].pc = "load" /\ exporter'[r].file = path'
      /\ exporter'[r].next = exporter[r].next
  BY DEF ExportConnect, ExportInv, ExportTypeOK, Runs, Place, ExporterType
<1>2. CASE path # Nobody
  BY <1>1, <1>2 DEF ExportConnect, ExportInv, ExportTypeOK, Inodes, Nobody
<1>3. CASE path = Nobody
  <2> DEFINE new == [by |-> r, table |-> NoTables]
  <2>1. files' = Append(files, new) /\ path' = Len(files) + 1 /\ files \in Seq(FileType)
    BY <1>3 DEF ExportConnect, ExportInv, ExportTypeOK
  <2>2. new.by = r /\ new.table["meta"] = Missing /\ new \in FileType
    BY ContentFacts, MartFacts DEF NoTables, FileType, Runs
  <2> HIDE DEF new
  <2>3. /\ files'[Len(files) + 1] = new /\ \A f \in DOMAIN files : files'[f] = files[f]
        /\ DOMAIN files = 1..Len(files) /\ DOMAIN files' = 1..(Len(files) + 1)
        /\ Len(files) \in Nat
    BY <2>1, <2>2
  <2> QED
    BY <1>1, <1>3, <2>1, <2>2, <2>3
<1> QED
  BY <1>2, <1>3

LEMMA PlacedKept ==
  ASSUME LoneInv, FilesPlaced, NEW r \in Runs, Export(r) \/ ExportDie(r), Active(r),
         overlapped' = overlapped
  PROVE  FilesPlaced'
<1>1. ExportInv /\ OneLone
  BY DEF LoneInv, RunInv, BaseInv, ServingInv
<1>2. ExportMoves(r) /\ \A x \in Runs : x # r => exporter'[x] = exporter[x]
  BY <1>1, ExportMoved
<1>3. \A x \in Runs :
        /\ exporter[x] \in Place /\ (WorkingOn(x) => exporter[x].file \in DOMAIN files)
        /\ WorkingOn(x) => exporter[x].pc \notin {"idle", "connect", "exported", "died"}
  BY <1>1 DEF ExportInv, ExportTypeOK, Runs, Place, WorkingOn, Working, Writing
<1>4. ASSUME NEW x \in Runs, x # r, WorkingOn(x) \/ exporter[x].pc = "connect"
      PROVE  {x, r} \subseteq overlapped
  <2>1. Active(x)
    BY <1>4, LoneFacts DEF WorkingOn, Working, Writing
  <2> QED
    BY <1>1, <1>4, <2>1 DEF OneLone
<1>5. DOMAIN files = 1..Len(files) /\ \A f \in DOMAIN files : files[f].by \in Runs
  <2>1. files \in Seq(FileType)
    BY <1>1 DEF ExportInv, ExportTypeOK
  <2>2. \A f \in DOMAIN files : files[f] \in FileType
    BY <2>1
  <2> QED
    BY <2>1, <2>2 DEF FileType, Runs
<1>6. CASE ExportUnlink(r)
  <2>1. /\ path' = Nobody /\ files' = files
        /\ exporter[r].pc = "idle" /\ exporter'[r].pc \in {"connect", "died"}
    BY <1>1, <1>6, UnlinkFacts DEF Runs
  <2>2. \A x \in Runs : WorkingOn(x)' => WorkingOn(x) /\ exporter'[x] = exporter[x]
    BY <1>2, <2>1 DEF WorkingOn, Working, Writing
  <2> QED
    BY <1>2, <1>5, <2>1, <2>2
       DEF FilesPlaced, AloneAtThePath, OwnFile, CreatorsStarted, OneFileEach
<1>7. CASE ExportConnect(r)
  <2>1. exporter[r].pc = "connect" /\ exporter'[r].pc = "load"
    BY <1>1, <1>7, ConnectFacts DEF ExportConnect
  <2>2. CASE path # Nobody
    <3>1. UNCHANGED <<files, path>> /\ exporter'[r].file = path
      BY <1>1, <1>7, <2>2, ConnectFacts
    <3>2. {r, files[path].by} \subseteq overlapped
      BY <2>1, <2>2 DEF FilesPlaced, AloneAtThePath
    <3>3. AloneAtThePath'
      BY <1>2, <2>1, <3>1 DEF FilesPlaced, AloneAtThePath
    <3>4. OwnFile'
      BY <1>2, <3>1, <3>2 DEF FilesPlaced, OwnFile, WorkingOn
    <3>5. CreatorsStarted' /\ OneFileEach'
      BY <1>2, <1>5, <2>1, <3>1, <3>2 DEF FilesPlaced, CreatorsStarted, OneFileEach, WorkingOn
    <3> QED
      BY <3>3, <3>4, <3>5 DEF FilesPlaced
  <2>3. CASE path = Nobody
    <3>1. /\ exporter'[r].file = path' /\ files'[path'].by = r /\ path' \notin DOMAIN files
          /\ \A f \in DOMAIN files : f \in DOMAIN files' /\ files'[f] = files[f]
          /\ \A f \in DOMAIN files' : f = path' \/ f \in DOMAIN files
      BY <1>1, <1>7, <2>3, ConnectFacts
    <3>2. AloneAtThePath'
      BY <1>2, <1>4, <2>1, <3>1 DEF AloneAtThePath
    <3>3. OwnFile'
      BY <1>2, <1>3, <3>1 DEF FilesPlaced, OwnFile, WorkingOn
    <3>4. \A f \in DOMAIN files : files[f].by # r
      BY <2>1 DEF FilesPlaced, CreatorsStarted
    <3>5. CreatorsStarted' /\ OneFileEach'
      BY <1>2, <1>5, <2>1, <3>1, <3>4 DEF FilesPlaced, CreatorsStarted, OneFileEach, WorkingOn
    <3> QED
      BY <3>2, <3>3, <3>5 DEF FilesPlaced
  <2> QED
    BY <2>2, <2>3
<1>8. ASSUME path' = path, Len(files') = Len(files),
             \A f \in DOMAIN files : files'[f].by = files[f].by,
             exporter[r].pc = "connect" \/ WorkingOn(r),
             \/ exporter'[r].pc \in {"exported", "died"}
             \/ WorkingOn(r) /\ WorkingOn(r)' /\ exporter'[r].file = exporter[r].file
      PROVE  FilesPlaced'
  <2>1. DOMAIN files' = DOMAIN files
    BY <1>1, <1>8, BaseKeeps, ExportKeeps DEF LoneInv, RunInv, BaseInv, ServingInv, TablesTyped,
       TablesTypeOK, Runs, ExportInv, ExportTypeOK
  <2>2. \A x \in Runs :
          /\ exporter'[x].pc = "connect" => exporter[x].pc = "connect"
          /\ WorkingOn(x)' => WorkingOn(x) /\ exporter'[x].file = exporter[x].file
          /\ exporter'[x].pc = "idle" => exporter[x].pc = "idle"
    BY <1>2, <1>8 DEF WorkingOn, Working, Writing
  <2>3. path # Nobody => path \in DOMAIN files
    BY <1>1 DEF ExportInv, ExportTypeOK, Inodes, Nobody
  <2>4. AloneAtThePath' /\ OwnFile'
    BY <1>3, <1>8, <2>2, <2>3 DEF FilesPlaced, AloneAtThePath, OwnFile
  <2>5. CreatorsStarted' /\ OneFileEach'
    BY <1>2, <1>5, <1>8, <2>1, <2>2 DEF FilesPlaced, CreatorsStarted, OneFileEach
  <2> QED
    BY <2>4, <2>5 DEF FilesPlaced
<1> QED
  BY <1>2, <1>6, <1>7, <1>8 DEF ExportMoves

\* The window is written by the last step of an export, to its file.
LEMMA PublishFacts ==
  ASSUME ExportInv, NEW r \in Runs, Export(r) \/ ExportDie(r),
         NEW f \in DOMAIN files', files'[f].table["meta"] \in Versions
  PROVE  /\ f \in DOMAIN files /\ files'[f].by = files[f].by
         /\ \/ files[f].table["meta"] \in Versions /\ files'[f] = files[f]
            \/ ExportInsertMeta(r) /\ f = exporter[r].file
<1>1. exporter[r] \in Place /\ files \in Seq(FileType)
  BY DEF ExportInv, ExportTypeOK, Runs
<1>2. CASE UNCHANGED files
  BY <1>2
<1>3. CASE ExportConnect(r)
  BY <1>3, ConnectFacts, ContentFacts
<1>4. ASSUME NEW t \in Tables, NEW content \in Contents, Put(r, t, content), WorkingOn(r)
      PROVE  /\ f \in DOMAIN files /\ files'[f].by = files[f].by
             /\ f # exporter[r].file => files'[f] = files[f]
             /\ (f = exporter[r].file /\ t = "meta") => content \in Versions
             /\ (f = exporter[r].file /\ t # "meta") => Table(r)["meta"] \in Versions
  <2>1. exporter[r].file \in DOMAIN files
    BY <1>1, <1>4 DEF Place, WorkingOn
  <2>2. files' \in Seq(FileType) /\ Len(files') = Len(files)
    BY <1>4, <2>1, PutFacts DEF ExportInv, Runs
  <2>3. f \in DOMAIN files
    BY <1>1, <2>2
  <2>4. /\ \A u \in Tables : files'[f].table[u] =
             IF f = exporter[r].file /\ u = t THEN content ELSE files[f].table[u]
        /\ files'[f].by = files[f].by /\ (f # exporter[r].file => files'[f] = files[f])
    BY <1>4, <2>1, <2>3, PutFacts DEF ExportInv, Runs
  <2> QED
    BY <2>3, <2>4, MartFacts DEF Table
<1>5. CASE ExportCreate(r)
  <2>1. /\ WorkingOn(r) /\ ThisMart(r) \in Tables /\ ThisMart(r) # "meta"
        /\ files' = files \/ Put(r, ThisMart(r), Empty)
    BY <1>1, <1>5, MartFacts DEF ExportCreate, WorkingOn, Working, Writing, Place, ThisMart
  <2>2. f = exporter[r].file => \/ files' = files
                                \/ Table(r)["meta"] \in Versions
    BY <1>4, <2>1, ContentFacts
  <2>3. Table(r)["meta"] \in Versions => files' = files
    <3> SUFFICES ASSUME Table(r)["meta"] \in Versions
                 PROVE  Table(r)[ThisMart(r)] # Missing
      BY <1>5 DEF ExportCreate
    <3>1. exporter[r].file \in DOMAIN files /\ ThisMart(r) \in Marts
      BY <1>1, <1>5, MartFacts DEF ExportCreate, Place, Working, ThisMart
    <3> QED
      BY <3>1, ContentFacts DEF ExportInv, FilesInOrder, Table
  <2> QED
    BY <1>2, <1>4, <2>1, <2>2, <2>3, ContentFacts
<1>6. CASE ExportInsert(r) \/ ExportCreateMeta(r)
  <2>1. WorkingOn(r) /\ Table(r)["meta"] \notin Versions
    BY <1>6, OwnerFacts DEF ExportInsert, ExportCreateMeta, WorkingOn, Working, Writing, Runs
  <2>2. CASE ExportInsert(r)
    <3>1. /\ ThisMart(r) \in Tables /\ ThisMart(r) # "meta" /\ exporter[r].held \in Contents
          /\ Put(r, ThisMart(r), exporter[r].held)
      BY <1>1, <2>2, MartFacts, ContentFacts DEF ExportInsert, Place, ThisMart
    <3>2. f # exporter[r].file
      BY <1>4, <2>1, <3>1
    <3>3. f \in DOMAIN files /\ files'[f] = files[f] /\ files'[f].by = files[f].by
      BY <1>4, <2>1, <3>1, <3>2
    <3> QED
      BY <3>3
  <2>3. CASE ExportCreateMeta(r)
    <3>1. files' = files \/ Put(r, "meta", Empty)
      BY <2>3 DEF ExportCreateMeta
    <3>2. CASE Put(r, "meta", Empty)
      <4>1. f # exporter[r].file
        BY <1>4, <2>1, <3>2, MartFacts, ContentFacts
      <4>2. f \in DOMAIN files /\ files'[f] = files[f] /\ files'[f].by = files[f].by
        BY <1>4, <2>1, <3>2, <4>1, MartFacts, ContentFacts
      <4> QED
        BY <4>2
    <3> QED
      BY <1>2, <3>1, <3>2
  <2> QED
    BY <1>6, <2>2, <2>3
<1>7. CASE ExportInsertMeta(r)
  <2>1. WorkingOn(r) /\ exporter[r].held \in Contents /\ Put(r, "meta", exporter[r].held)
    BY <1>1, <1>7, ContentFacts DEF ExportInsertMeta, Place, WorkingOn, Working, Writing
  <2> QED
    BY <1>4, <1>7, <2>1, MartFacts
<1>8. CASE ExportDie(r) \/ ExportUnlink(r) \/ ExportLoad(r) \/ ExportWindow(r)
  BY <1>2, <1>8 DEF ExportDie, ExportUnlink, ExportLoad, ExportWindow
<1> QED
  BY <1>3, <1>5, <1>6, <1>7, <1>8 DEF Export

\* What a lone export publishes.
LEMMA LonePublishes ==
  ASSUME LoneInv, LoneExports, NEW r \in Runs, r \notin overlapped, ExportInsertMeta(r)
  PROVE  LET table == files'[exporter[r].file].table
         IN /\ table["meta"] = otp /\ \A m \in Marts : table[m] = otp
            /\ AtLeast(otp, began[r], fetched[r])
<1> DEFINE g == exporter[r].file
<1>1. ExportInv /\ exporter[r].pc = "insert_meta" /\ WorkingOn(r)
  BY DEF LoneInv, RunInv, BaseInv, ServingInv, ExportInsertMeta, WorkingOn, Working, Writing
<1>2. /\ exporter[r].next = Len(MARTS) + 1 /\ g \in DOMAIN files /\ exporter[r].held \in Contents
  BY <1>1, OwnerFacts, ContentFacts DEF Place, Writing, Runs
<1>3. OneVersion(r)
  BY <1>1 DEF LoneExports
<1>4. \A i \in DOMAIN MARTS : files[g].table[MARTS[i]] = otp
  BY <1>2, <1>3, MartFacts DEF OneVersion, Table
<1>5. exporter[r].held = otp
  BY <1>1, <1>3 DEF OneVersion
<1>6. \A u \in Tables : files'[g].table[u] = IF u = "meta" THEN otp ELSE files[g].table[u]
  BY <1>1, <1>2, <1>5, MartFacts, PutFacts DEF ExportInsertMeta, ExportInv, Runs
<1>7. files'[g].table["meta"] = otp /\ \A m \in Marts : files'[g].table[m] = otp
  BY <1>4, <1>6, MartFacts
<1>8. Active(r) /\ status[r]["fct_stop_otp"] = "done"
  BY <1>1, LoneFacts, AssetFacts DEF AssetNames
<1>9. Progress(r)
  BY <1>8 DEF LoneInv, LoneProgress
<1> QED
  BY <1>7, <1>8, <1>9 DEF Progress

LEMMA VersionKept ==
  ASSUME LoneInv, LoneExports, NEW r \in Runs, r \notin overlapped, Export(r) \/ ExportDie(r),
         WorkingOn(r)', otp' = otp
  PROVE  OneVersion(r)'
<1> DEFINE n == exporter[r].next
           g == exporter[r].file
<1>1. ExportInv /\ exporter[r] \in Place /\ exporter[r] \in ExporterType
  BY DEF LoneInv, RunInv, BaseInv, ServingInv, ExportInv, ExportTypeOK, Runs, Place
<1>2. ~ExportDie(r) /\ ~ExportUnlink(r) /\ ~ExportInsertMeta(r)
  <2>1. exporter'[r].pc \notin {"connect", "exported", "died"}
    BY DEF WorkingOn, Working, Writing
  <2>2. ExportUnlink(r) => exporter'[r].pc \in {"connect", "died"}
    BY <1>1, UnlinkFacts DEF Runs
  <2>3. \A pc : End(r, pc) => exporter'[r].pc = pc
    BY <1>1 DEF End, NoExport, ExportInv, ExportTypeOK, Runs
  <2> QED
    BY <2>1, <2>2, <2>3 DEF ExportDie, ExportInsertMeta
<1>3. CASE ExportConnect(r)
  <2>1. exporter'[r].pc = "load" /\ exporter'[r].next = 1
    BY <1>1, <1>3, ConnectFacts DEF ExportConnect, Place, Working, Writing
  <2> QED
    BY <2>1, MartFacts DEF OneVersion
<1>4. ASSUME exporter[r].pc \in Working
      PROVE  OneVersion(r) /\ g \in DOMAIN files
  BY <1>1, <1>4 DEF LoneExports, WorkingOn, Place
<1>5. ASSUME NEW t \in Tables, NEW content \in Contents, Put(r, t, content), exporter[r].pc \in Working
      PROVE  \A u \in Tables :
               files'[g].table[u] = IF u = t THEN content ELSE files[g].table[u]
  BY <1>1, <1>4, <1>5, PutFacts DEF ExportInv, Runs
<1>6. CASE ExportLoad(r)
  <2>1. exporter[r].pc = "load" /\ OneVersion(r) /\ n \in DOMAIN MARTS
    BY <1>1, <1>4, <1>6 DEF ExportLoad, Working, Place
  <2>2. Active(r) /\ built[r] = Len(MARTS) /\ status[r]["dbt_marts"] = "done"
    BY <2>1, LoneFacts, AssetFacts DEF WorkingOn, Working, AssetNames
  <2>3. Progress(r)
    BY <2>2 DEF LoneInv, LoneProgress
  <2>4. marts[ThisMart(r)] = otp
    BY <2>1, <2>2, <2>3, MartFacts DEF Progress, ThisMart
  <2>5. exporter'[r].held = otp /\ exporter'[r].next = n /\ exporter'[r].file = g /\ files' = files
    BY <1>1, <1>6, <2>4 DEF ExportLoad, ExportInv, ExportTypeOK, Runs, ExporterType
  <2> QED
    BY <2>1, <2>5 DEF OneVersion, Table
<1>7. CASE ExportWindow(r)
  <2>1. exporter[r].pc = "window" /\ OneVersion(r)
    BY <1>4, <1>7 DEF ExportWindow, Working, Writing
  <2>2. exporter'[r].held = otp /\ exporter'[r].next = n /\ exporter'[r].file = g /\ files' = files
    BY <1>1, <1>7 DEF ExportWindow, ExportInv, ExportTypeOK, Runs, ExporterType
  <2> QED
    BY <2>1, <2>2 DEF OneVersion, Table
<1>8. CASE ExportCreate(r)
  <2>1. exporter[r].pc = "create" /\ OneVersion(r) /\ n \in DOMAIN MARTS /\ ThisMart(r) = MARTS[n]
    BY <1>1, <1>4, <1>8 DEF ExportCreate, Working, Place, ThisMart
  <2>2. Put(r, MARTS[n], Empty) /\ Step(r, "insert")
    BY <1>1, <1>8, <2>1 DEF ExportCreate, End, NoExport, WorkingOn, Working, Writing, ExportInv,
       ExportTypeOK, Runs
  <2>3. /\ exporter'[r].pc = "insert" /\ exporter'[r].file = g /\ exporter'[r].next = n
        /\ exporter'[r].held = otp
    BY <1>1, <2>1, <2>2, StepFacts DEF OneVersion, Runs
  <2>4. \A i \in DOMAIN MARTS : i < n => files'[g].table[MARTS[i]] = files[g].table[MARTS[i]]
    BY <1>5, <2>1, <2>2, MartFacts, ContentFacts, ServingAssumption DEF Working
  <2> QED
    BY <2>1, <2>3, <2>4 DEF OneVersion, Table
<1>9. CASE ExportInsert(r)
  <2>1. /\ exporter[r].pc = "insert" /\ OneVersion(r) /\ n \in DOMAIN MARTS /\ ThisMart(r) = MARTS[n]
        /\ exporter[r].held \in Contents
    BY <1>1, <1>4, <1>9, ContentFacts DEF ExportInsert, Working, Writing, Place, ThisMart
  <2>2. exporter[r].held = otp /\ Put(r, MARTS[n], otp)
    BY <1>9, <2>1 DEF ExportInsert, OneVersion
  <2>3. /\ exporter'[r].next = n + 1 /\ exporter'[r].file = g
        /\ exporter'[r].pc \in {"window", "load"}
    <3> DEFINE old == exporter[r]
               pc == IF old.next = Len(MARTS) THEN "window" ELSE "load"
               e == [old EXCEPT !.pc = pc, !.next = @ + 1, !.held = Missing]
    <3>1. exporter'[r] = e /\ old \in ExporterType
      BY <1>1, <1>9 DEF ExportInsert, ExportInv, ExportTypeOK, Runs
    <3> HIDE DEF old, pc
    <3>2. e \in [pc : {pc}, file : {old.file}, next : {old.next + 1}, held : {Missing}]
      BY <3>1 DEF ExporterType
    <3> HIDE DEF e
    <3>3. e.file = old.file /\ e.pc = pc /\ e.next = old.next + 1
      BY <3>2
    <3> QED
      BY <3>1, <3>3 DEF old, pc
  <2>4. \A u \in Tables : files'[g].table[u] = IF u = MARTS[n] THEN otp ELSE files[g].table[u]
    BY <1>5, <2>1, <2>2, MartFacts DEF Working, Writing
  <2>5. ASSUME NEW i \in DOMAIN MARTS, i < n + 1
        PROVE  files'[g].table[MARTS[i]] = otp
    <3>1. i < n \/ i = n
      BY <2>1, <2>5, MartFacts
    <3> QED
      BY <2>1, <2>4, <3>1, MartFacts DEF OneVersion, Table
  <2> QED
    BY <2>3, <2>5 DEF OneVersion, Table
<1>10. CASE ExportCreateMeta(r)
  <2>1. exporter[r].pc = "create_meta" /\ OneVersion(r)
    BY <1>4, <1>10 DEF ExportCreateMeta, Working, Writing
  <2>2. Put(r, "meta", Empty) /\ Step(r, "insert_meta")
    BY <1>1, <1>10 DEF ExportCreateMeta, End, NoExport, WorkingOn, Working, Writing, ExportInv,
       ExportTypeOK, Runs
  <2>3. /\ exporter'[r].pc = "insert_meta" /\ exporter'[r].file = g /\ exporter'[r].next = n
        /\ exporter'[r].held = otp
    BY <1>1, <2>1, <2>2, StepFacts DEF OneVersion, Runs
  <2>4. \A i \in DOMAIN MARTS : files'[g].table[MARTS[i]] = files[g].table[MARTS[i]]
    BY <1>5, <2>1, <2>2, MartFacts, ContentFacts DEF Working, Writing
  <2> QED
    BY <2>1, <2>3, <2>4 DEF OneVersion, Table
<1> QED
  BY <1>2, <1>3, <1>6, <1>7, <1>8, <1>9, <1>10 DEF Export

LEMMA TellKept ==
  ASSUME LoneInv, FilesPlaced, FilesTell, NEW r \in Runs, Acts(r), Export(r) \/ ExportDie(r),
         UNCHANGED <<otp, fetched>>,
         \A x \in Runs : Exported(x)' => Exported(x) \/ (x = r /\ ExportInsertMeta(r))
  PROVE  FilesTell'
<1>1. ExportInv /\ OneLone /\ BaseInv
  BY DEF LoneInv, RunInv, BaseInv, ServingInv
<1>2. /\ Active(r) /\ began' = began /\ overlapped' = overlapped
      /\ \A x \in Runs : x # r => exporter'[x] = exporter[x]
  BY <1>1, ActFacts
<1>3. \A f \in DOMAIN files : files[f].by \in Runs
  <2>1. files \in Seq(FileType)
    BY <1>1 DEF ExportInv, ExportTypeOK
  <2>2. \A f \in DOMAIN files : files[f] \in FileType
    BY <2>1
  <2> QED
    BY <2>2 DEF FileType, Runs
<1>4. LoneExports'
  <2> SUFFICES ASSUME NEW x \in Runs, x \notin overlapped, WorkingOn(x)'
               PROVE  OneVersion(x)'
    BY <1>2 DEF LoneExports
  <2>1. x = r
    <3> SUFFICES ASSUME x # r
                 PROVE  FALSE
      OBVIOUS
    <3>1. WorkingOn(x)
      BY <1>2 DEF WorkingOn
    <3>2. Active(x)
      BY <3>1, LoneFacts DEF WorkingOn, Working, Writing
    <3> QED
      BY <1>1, <1>2, <3>2 DEF OneLone
  <2> QED
    BY <2>1, VersionKept DEF FilesTell
<1>5. ASSUME NEW f \in DOMAIN files', files'[f].table["meta"] \in Versions, files'[f].by \notin overlapped
      PROVE  /\ f \in DOMAIN files /\ files'[f].by = files[f].by
             /\ \/ files[f].table["meta"] \in Versions /\ files'[f] = files[f]
                \/ /\ files[f].by = r /\ ExportInsertMeta(r) /\ f = exporter[r].file
                   /\ files'[f].table["meta"] = otp
                   /\ \A m \in Marts : files'[f].table[m] = otp
                   /\ AtLeast(otp, began[r], fetched[r])
  <2>1. /\ f \in DOMAIN files /\ files'[f].by = files[f].by
        /\ \/ files[f].table["meta"] \in Versions /\ files'[f] = files[f]
           \/ ExportInsertMeta(r) /\ f = exporter[r].file
    BY <1>1, <1>5, PublishFacts
  <2>2. CASE ExportInsertMeta(r) /\ f = exporter[r].file
    <3>1. WorkingOn(r)
      BY <2>2 DEF ExportInsertMeta, WorkingOn, Working, Writing
    <3>2. files[f].by = r
      BY <1>5, <2>1, <2>2, <3>1 DEF FilesPlaced, OwnFile
    <3> QED
      BY <1>5, <2>1, <2>2, <3>2, LonePublishes DEF FilesTell
  <2> QED
    BY <2>1, <2>2
<1>6. WindowIsOfTheRows'
  BY <1>2, <1>5 DEF FilesTell, WindowIsOfTheRows
<1>7. ASSUME NEW f \in DOMAIN files', NEW x, x = files'[f].by, Exported(x)', x \notin overlapped
      PROVE  /\ files'[f].table["meta"] \in Versions
             /\ AtLeast(files'[f].table["meta"], began[x], fetched[x])
  <2>1. f \in DOMAIN files /\ files'[f].by = files[f].by
    <3>1. CASE ExportConnect(r)
      <4>1. f \in DOMAIN files \/ files'[f].by = r
        BY <1>1, <1>7, <3>1, ConnectFacts
      <4>2. x # r
        <5>1. ~Exported(r)
          BY <1>1, <1>2, <3>1 DEF ExportConnect, LoneInv, RunInv, RunsInStep, InStep, Exported
        <5>2. ~ExportInsertMeta(r)
          BY <3>1 DEF ExportConnect, ExportInsertMeta
        <5> QED
          BY <1>7, <5>1, <5>2
      <4> QED
        BY <1>1, <1>7, <3>1, <4>1, <4>2, ConnectFacts
    <3>2. CASE ExportUnlink(r)
      BY <3>2 DEF ExportUnlink
    <3>3. CASE /\ Len(files') = Len(files)
               /\ \A g \in DOMAIN files : files'[g].by = files[g].by
      <4>1. files \in Seq(FileType) /\ files' \in Seq(FileType')
        BY <1>1, ExportKeeps
           DEF ExportInv, ExportTypeOK, TablesTyped, BaseInv, TablesTypeOK, Runs
      <4> QED
        BY <3>3, <4>1
    <3> QED
      BY <1>1, <3>1, <3>2, <3>3, ExportMoved DEF ExportMoves
  <2>2. x \in Runs /\ x = files[f].by
    BY <1>3, <1>7, <2>1
  <2>3. CASE Exported(x)
    <3>1. /\ files[f].table["meta"] \in Versions
          /\ AtLeast(files[f].table["meta"], began[x], fetched[x])
      BY <1>7, <2>1, <2>2, <2>3 DEF FilesTell, RefreshCoversItsStart, AtLeast
    <3>2. files'[f] = files[f]
      BY <1>1, <2>1, <3>1, ExportKeeps DEF PublishedStays, TablesTyped, BaseInv, TablesTypeOK, Runs
    <3> QED
      BY <3>1, <3>2
  <2>4. CASE x = r /\ ExportInsertMeta(r)
    <3>1. WorkingOn(r)
      BY <2>4 DEF ExportInsertMeta, WorkingOn, Working, Writing
    <3>2. f = exporter[r].file
      BY <1>7, <2>1, <2>2, <2>4, <3>1 DEF FilesPlaced, OneFileEach
    <3>3. otp \in Versions
      BY <1>1 DEF BaseInv, TablesTypeOK
    <3> QED
      BY <1>7, <2>1, <2>4, <3>2, <3>3, LonePublishes DEF FilesTell
  <2> QED
    BY <1>7, <2>1, <2>2, <2>3, <2>4
<1>8. RefreshCoversItsStart'
  <2> SUFFICES ASSUME NEW f \in DOMAIN files', Exported(files[f].by)', files'[f].by \notin overlapped'
               PROVE  /\ files'[f].table["meta"] \in Versions
                      /\ files'[f].table["meta"].arrivals >= began'[files'[f].by]
                      /\ files'[f].table["meta"].schedule >= fetched'[files'[f].by]
    BY DEF RefreshCoversItsStart
  <2>1. PICK x : x = files'[f].by
    OBVIOUS
  <2>2. Exported(x)' /\ x \notin overlapped
    BY <1>2, <2>1 DEF Exported
  <2> QED
    BY <1>2, <1>7, <2>1, <2>2 DEF AtLeast
<1> QED
  BY <1>4, <1>6, <1>8 DEF FilesTell

LEMMA FileStarts ==
  ASSUME RefreshInit
  PROVE  FileInv
<1>1. files = <<>> /\ path = Nobody /\ \A x \in Runs : exporter[x].pc = "idle"
  BY DEF RefreshInit, ServingInit, NoExport, Runs
<1>2. FilesPlaced
  BY <1>1 DEF FilesPlaced, AloneAtThePath, OwnFile, CreatorsStarted, OneFileEach, WorkingOn, Working,
     Writing
<1>3. FilesTell
  BY <1>1 DEF FilesTell, LoneExports, WindowIsOfTheRows, RefreshCoversItsStart, WorkingOn, Working,
     Writing
<1> QED
  BY <1>2, <1>3, LoneStarts DEF FileInv

LEMMA FileKeeps ==
  ASSUME FileInv, [RefreshNext]_refreshVars
  PROVE  FileInv'
<1>1. LoneInv /\ FilesPlaced /\ FilesTell /\ BaseInv /\ LoneInv' /\ OneLone
  BY LoneKeeps DEF FileInv, LoneInv, RunInv
<1>2. CASE Outside
  BY <1>1, <1>2
     DEF Outside, tables, runVars, history, FileInv, FilesPlaced, FilesTell, AloneAtThePath, OwnFile,
         CreatorsStarted, OneFileEach, LoneExports, OneVersion, WorkingOn, Table, WindowIsOfTheRows,
         RefreshCoversItsStart, Exported
<1>3. ASSUME NEW r \in Runs, Launch(r)
      PROVE  FilesPlaced' /\ FilesTell'
  <2>1. /\ \A q \in Runs, b \in Assets : status'[q][b] = IF q = r THEN "waiting" ELSE status[q][b]
        /\ UNCHANGED <<path, files, exporter, otp, fetched>>
        /\ overlapped \subseteq overlapped' /\ began' = [began EXCEPT ![r] = archive]
    BY <1>1, <1>3, LaunchFacts DEF servingVars, tables
  <2>2. FilesPlaced'
    BY <1>1, <2>1
       DEF FilesPlaced, AloneAtThePath, OwnFile, CreatorsStarted, OneFileEach, WorkingOn
  <2>3. LoneExports' /\ WindowIsOfTheRows'
    BY <1>1, <2>1 DEF FilesTell, LoneExports, OneVersion, WorkingOn, Table, WindowIsOfTheRows
  <2>4. \A f \in DOMAIN files : files[f].by \in Runs
    <3>1. files \in Seq(FileType)
      BY <1>1 DEF BaseInv, ServingInv, ExportInv, ExportTypeOK
    <3>2. \A f \in DOMAIN files : files[f] \in FileType
      BY <3>1
    <3> QED
      BY <3>2 DEF FileType, Runs
  <2>5. \A q \in Runs : Exported(q)' => q # r /\ Exported(q) /\ began'[q] = began[q]
    BY <1>1, <2>1, AssetFacts DEF Exported, AssetNames, BaseInv, TablesTypeOK
  <2>6. RefreshCoversItsStart'
    BY <1>1, <2>1, <2>4, <2>5 DEF FilesTell, RefreshCoversItsStart
  <2> QED
    BY <2>2, <2>3, <2>6 DEF FilesTell
<1>4. ASSUME NEW r \in Runs, Acts(r), Export(r) \/ ExportDie(r), UNCHANGED <<otp, fetched>>,
             \A x \in Runs : Exported(x)' => Exported(x) \/ (x = r /\ ExportInsertMeta(r))
      PROVE  FilesPlaced' /\ FilesTell'
  <2>1. Active(r) /\ overlapped' = overlapped
    BY <1>1, <1>4, ActFacts
  <2> QED
    BY <1>1, <1>4, <2>1, PlacedKept, TellKept
<1>5. ASSUME NEW r \in Runs, ExportStep(r)
      PROVE  FilesPlaced' /\ FilesTell'
  <2>1. Acts(r) /\ Export(r) /\ UNCHANGED <<otp, fetched>>
    BY <1>5 DEF Acts, ExportStep, tables, history
  <2>2. \A x \in Runs : x # r => status'[x] = status[x]
    BY <1>1, <2>1, ActFacts
  <2>3. status'[r]["serving_export"] = "done" => exporter'[r].pc = "exported"
    BY <1>1, <1>5, ExportEnds
  <2>4. exporter'[r].pc = "exported" => ExportInsertMeta(r)
    BY <1>1, <2>1
       DEF Export, ExportUnlink, ExportConnect, ExportLoad, ExportCreate, ExportInsert, ExportWindow,
           ExportCreateMeta, Step, End, NoExport, BaseInv, ServingInv, ExportInv, ExportTypeOK, Runs,
           Place, ExporterType
  <2>5. \A x \in Runs : Exported(x)' => Exported(x) \/ (x = r /\ ExportInsertMeta(r))
    BY <2>2, <2>3, <2>4 DEF Exported
  <2> QED
    BY <1>4, <2>1, <2>5
<1>6. ASSUME NEW r \in Runs, FailsEarly(r, "serving_export")
      PROVE  FilesPlaced' /\ FilesTell'
  <2>1. Acts(r) /\ ExportDie(r) /\ UNCHANGED <<otp, fetched>>
    BY <1>6, AssetFacts DEF Acts, FailsEarly, tables, AssetNames
  <2>2. \A x \in Runs : x # r => status'[x] = status[x]
    BY <1>1, <2>1, ActFacts
  <2>3. status'[r]["serving_export"] = "failed"
    BY <1>1, <1>6, AssetFacts DEF FailsEarly, Mark, BaseInv, TablesTypeOK, AssetNames
  <2>4. \A x \in Runs : Exported(x)' => Exported(x) \/ (x = r /\ ExportInsertMeta(r))
    BY <2>2, <2>3 DEF Exported
  <2> QED
    BY <1>4, <2>1, <2>4
<1>7. ASSUME NEW r \in Runs, Acts(r),
             \/ BuildMart(r)
             \/ \E a \in Assets :
                  \/ Start(r, a)
                  \/ \E s \in {"done", "failed"} : Materialise(r, a, s)
                  \/ a # "serving_export" /\ FailsEarly(r, a)
      PROVE  FilesPlaced' /\ FilesTell'
  <2>1. /\ UNCHANGED <<path, files, exporter>>
        /\ ~WorkingOn(r) /\ exporter[r].pc \notin {"connect", "exported"}
    BY <1>1, <1>7, TableActs
  <2>2. /\ Active(r) /\ began' = began /\ overlapped' = overlapped
        /\ \A q \in Runs : q # r => status'[q] = status[q] /\ fetched'[q] = fetched[q]
    BY <1>1, <1>7, ActFacts
  <2>3. FilesPlaced'
    BY <1>1, <2>1, <2>2
       DEF FilesPlaced, AloneAtThePath, OwnFile, CreatorsStarted, OneFileEach, WorkingOn
  <2>4. \A x \in Runs : ~(x \notin overlapped /\ WorkingOn(x))
    <3> SUFFICES ASSUME NEW x \in Runs, x \notin overlapped, WorkingOn(x)
                 PROVE  FALSE
      OBVIOUS
    <3>1. Active(x)
      BY <1>1, LoneFacts DEF WorkingOn, Working, Writing
    <3> QED
      BY <1>1, <2>1, <2>2, <3>1 DEF OneLone
  <2>5. LoneExports' /\ WindowIsOfTheRows'
    BY <1>1, <2>1, <2>2, <2>4 DEF FilesTell, LoneExports, WorkingOn, WindowIsOfTheRows
  <2>6. ~Exported(r)'
    <3>1. InStep(r)'
      BY <1>1 DEF LoneInv, RunInv, RunsInStep
    <3> QED
      BY <2>1, <3>1 DEF InStep, Exported
  <2>7. \A f \in DOMAIN files : files[f].by \in Runs
    <3>1. files \in Seq(FileType)
      BY <1>1 DEF BaseInv, ServingInv, ExportInv, ExportTypeOK
    <3>2. \A f \in DOMAIN files : files[f] \in FileType
      BY <3>1
    <3> QED
      BY <3>2 DEF FileType, Runs
  <2>8. RefreshCoversItsStart'
    BY <1>1, <2>1, <2>2, <2>6, <2>7 DEF FilesTell, RefreshCoversItsStart, Exported
  <2> QED
    BY <2>3, <2>5, <2>8 DEF FilesTell
<1>8. ASSUME NEW r \in Runs, Acts(r)
      PROVE  FilesPlaced' /\ FilesTell'
  BY <1>5, <1>6, <1>7, <1>8 DEF Acts
<1> QED
  BY <1>1, <1>2, <1>3, <1>8, StepCases DEF FileInv

---------------------------------------------------------------------------

\* The tables, the runs, the files and the requests keep their types.
THEOREM RefreshTypeCorrect == RefreshSpec => []RefreshTypeOK
<1>1. BaseInv => RefreshTypeOK
  BY ServingTypes DEF BaseInv, RefreshTypeOK
<1> QED
  BY <1>1, BaseStarts, BaseKeeps, PTL DEF RefreshSpec

\* An answer with a data window has all the rows of the export that wrote it,
\* whatever exports and requests run beside it (export_marts.py and api.py).
THEOREM WholeHolds == RefreshSpec => []FreshAnswersAreWhole
<1>1. BaseInv => FreshAnswersAreWhole
  BY DEF BaseInv, ServingInv
<1> QED
  BY <1>1, BaseStarts, BaseKeeps, PTL DEF RefreshSpec

\* The file an export completed is never written again (export_marts.py).
THEOREM FinalHolds == RefreshSpec => PublishedFileIsFinal
<1>1. PublishedStays =>
        \A i \in DOMAIN files : files[i].table["meta"] \in Versions => files'[i] = files[i]
  BY DEF PublishedStays
<1> QED
  BY <1>1, BaseStarts, BaseKeeps, PTL DEF RefreshSpec, PublishedFileIsFinal

\* A run that overlaps no other finds in fct_stop_otp a row per arrival: its
\* join check raises no false alarm (definitions.py).
THEOREM JoinCheckSound == RefreshSpec => []JoinCheckHolds
<1>1. LoneInv => JoinCheckHolds
  BY AssetFacts DEF LoneInv, LoneProgress, Progress, JoinCheckHolds, AssetNames
<1> QED
  BY <1>1, LoneStarts, LoneKeeps, PTL DEF RefreshSpec

\* Unless its run overlapped another, a file's window is that of the fact table
\* its rows were built from (export_marts.py).
THEOREM WindowMatches == RefreshSpec => []WindowIsOfTheRows
<1>1. FileInv => WindowIsOfTheRows
  BY DEF FileInv, FilesTell
<1> QED
  BY <1>1, FileStarts, FileKeeps, PTL DEF RefreshSpec

\* A run that overlaps no other and exports serves what was there when it
\* began (definitions.py).
THEOREM StartCovered == RefreshSpec => []RefreshCoversItsStart
<1>1. FileInv => RefreshCoversItsStart
  BY DEF FileInv, FilesTell
<1> QED
  BY <1>1, FileStarts, FileKeeps, PTL DEF RefreshSpec
---------------------------------------------------------------------------
(* A run at rest.  The latest run, if none ran beside it, is the only one  *)
(* that can still move: what it left at the path stays.                    *)

Latest(r) == ~Unlaunched(r) /\ \A q \in Runs : r < q => Unlaunched(q)

\* A launch gives every asset a status at once, and runs are launched in order.
LaunchedWhole ==
  \A r \in Runs : ~Unlaunched(r) => \A a \in Assets : status[r][a] # "none"

LaunchedInOrder == \A r, q \in Runs : (q < r /\ Unlaunched(q)) => Unlaunched(r)

LatestAlone ==
  \A r \in Runs : (Latest(r) /\ r \notin overlapped) => \A q \in Runs : Active(q) => q = r

\* From its connect() on, the file of the latest run is the one at the path.
LatestServes ==
  \A r \in Runs :
    (Latest(r) /\ r \notin overlapped /\ (WorkingOn(r) \/ exporter[r].pc = "exported")) =>
      /\ path \in DOMAIN files /\ files[path].by = r
      /\ WorkingOn(r) => exporter[r].file = path

LaunchInv == LaunchedWhole /\ LaunchedInOrder /\ LatestAlone

RestInv == FileInv /\ LaunchInv /\ LatestServes

LEMMA RunOrder == \A r, q \in Runs : r < q \/ q < r \/ r = q
BY ServingAssumption DEF Runs, Exporters

\* An act launches nothing, and activates nobody.
LEMMA ActsLaunchNothing ==
  ASSUME BaseInv, LaunchedWhole, NEW r \in Runs, Acts(r)
  PROVE  \A q \in Runs :
           /\ Unlaunched(q)' <=> Unlaunched(q)
           /\ Latest(q)' <=> Latest(q)
           /\ Active(q)' => Active(q)
           /\ \A a \in Assets : status'[q][a] = "none" => status[q][a] = "none"
<1>1. /\ Active(r) /\ \A q \in Runs : q # r => status'[q] = status[q]
      /\ \E a \in Assets, s \in Statuses \ {"none", "waiting"} :
           /\ \A b \in Assets : status'[r][b] = IF b = a THEN s ELSE status[r][b]
           /\ status[r][a] = "running" \/ Ready(r, a)
  BY ActFacts
<1>2. PICK a \in Assets, s \in Statuses \ {"none", "waiting"} :
        /\ \A b \in Assets : status'[r][b] = IF b = a THEN s ELSE status[r][b]
        /\ status[r][a] = "running" \/ Ready(r, a)
  BY <1>1
<1>3. status[r][a] # "none"
  BY <1>2 DEF Ready
<1>4. \A q \in Runs : Unlaunched(q)' <=> Unlaunched(q)
  BY <1>1, <1>2, <1>3 DEF Unlaunched
<1>5. \A q \in Runs : Latest(q)' <=> Latest(q)
  BY <1>4 DEF Latest
<1>6. \A q \in Runs : Active(q)' => Active(q)
  BY <1>1 DEF Active, Ready
<1> QED
  BY <1>1, <1>2, <1>4, <1>5, <1>6

\* After a launch the launched run is the latest, and no other.
LEMMA LaunchIsLatest ==
  ASSUME BaseInv, LaunchedInOrder, NEW r \in Runs, Launch(r)
  PROVE  /\ \A q \in Runs : q # r => (Unlaunched(q)' <=> Unlaunched(q)) /\ ~Latest(q)'
         /\ ~Unlaunched(r)' /\ \A q \in Runs : q < r => ~Unlaunched(q)
<1>1. /\ Unlaunched(r)
      /\ \A q \in Runs, b \in Assets :
           status'[q][b] = IF q = r THEN "waiting" ELSE status[q][b]
  BY LaunchFacts
<1>2. "serving_export" \in Assets
  BY AssetFacts DEF AssetNames
<1>3. \A q \in Runs : q # r => (Unlaunched(q)' <=> Unlaunched(q))
  BY <1>1 DEF Unlaunched
<1>4. ~Unlaunched(r)'
  BY <1>1, <1>2 DEF Unlaunched
<1>5. \A q \in Runs : q < r => ~Unlaunched(q)
  BY DEF Launch
<1>6. \A q \in Runs : r < q => Unlaunched(q)
  BY <1>1 DEF LaunchedInOrder
<1>7. \A q \in Runs : q # r => ~Latest(q)'
  BY <1>3, <1>4, <1>6, RunOrder DEF Latest
<1> QED
  BY <1>3, <1>4, <1>5, <1>7

LEMMA LaunchKept ==
  ASSUME BaseInv, LaunchInv, [RefreshNext]_refreshVars
  PROVE  LaunchInv'
<1>1. CASE Outside
  BY <1>1 DEF Outside, LaunchInv, LaunchedWhole, LaunchedInOrder, LatestAlone, Latest, Unlaunched,
     Active, Ready, runVars, history
<1>2. ASSUME NEW r \in Runs, Launch(r)
      PROVE  LaunchInv'
  <2>1. /\ Unlaunched(r)
        /\ \A q \in Runs, b \in Assets :
             status'[q][b] = IF q = r THEN "waiting" ELSE status[q][b]
        /\ (\E q \in Runs : Active(q)) => r \in overlapped'
    BY <1>2, LaunchFacts
  <2>2. /\ \A q \in Runs : q # r => (Unlaunched(q)' <=> Unlaunched(q)) /\ ~Latest(q)'
        /\ ~Unlaunched(r)' /\ \A q \in Runs : q < r => ~Unlaunched(q)
    BY <1>2, LaunchIsLatest DEF LaunchInv
  <2>3. LaunchedWhole'
    BY <2>1, <2>2 DEF LaunchInv, LaunchedWhole
  <2>4. LaunchedInOrder'
    BY <2>2 DEF LaunchInv, LaunchedInOrder
  <2>5. \A q \in Runs : q # r /\ Active(q)' => Active(q)
    <3> SUFFICES ASSUME NEW q \in Runs, q # r, Active(q)'
                 PROVE  Active(q)
      OBVIOUS
    <3>1. \A b \in Assets : status'[q][b] = status[q][b]
      BY <2>1
    <3> QED
      BY <3>1, UpstreamAreAssets DEF Active, Ready
  <2>6. LatestAlone'
    BY <2>1, <2>2, <2>5 DEF LatestAlone
  <2> QED
    BY <2>3, <2>4, <2>6 DEF LaunchInv
<1>3. ASSUME NEW r \in Runs, Acts(r)
      PROVE  LaunchInv'
  <2>1. \A q \in Runs :
          /\ Unlaunched(q)' <=> Unlaunched(q)
          /\ Latest(q)' <=> Latest(q)
          /\ Active(q)' => Active(q)
          /\ \A a \in Assets : status'[q][a] = "none" => status[q][a] = "none"
    BY <1>3, ActsLaunchNothing DEF LaunchInv
  <2>2. overlapped' = overlapped
    BY <1>3, ActFacts
  <2>3. LaunchedWhole' /\ LaunchedInOrder'
    BY <2>1 DEF LaunchInv, LaunchedWhole, LaunchedInOrder
  <2>4. LatestAlone'
    BY <2>1, <2>2 DEF LaunchInv, LatestAlone
  <2> QED
    BY <2>3, <2>4 DEF LaunchInv
<1> QED
  BY <1>1, <1>2, <1>3, StepCases

LEMMA ServesKept ==
  ASSUME RestInv, [RefreshNext]_refreshVars
  PROVE  LatestServes'
<1>1. FileInv /\ LoneInv /\ RunInv /\ BaseInv /\ ExportInv /\ LaunchInv /\ LatestServes
  BY DEF RestInv, FileInv, LoneInv, RunInv, BaseInv, ServingInv
<1>2. CASE Outside
  BY <1>1, <1>2 DEF Outside, LatestServes, Latest, Unlaunched, WorkingOn, runVars, history
<1>3. ASSUME NEW r \in Runs, Launch(r)
      PROVE  LatestServes'
  <2>1. /\ Unlaunched(r) /\ exporter' = exporter
        /\ \A q \in Runs : q # r => ~Latest(q)'
    BY <1>1, <1>3, LaunchFacts, LaunchIsLatest DEF servingVars, LaunchInv
  <2>2. exporter[r].pc = "idle"
    BY <1>1, <2>1, AssetFacts DEF RunInv, RunsInStep, InStep, Unlaunched, AssetNames
  <2> QED
    BY <2>1, <2>2 DEF LatestServes, WorkingOn, Working, Writing
<1>4. ASSUME NEW r \in Runs, Acts(r)
      PROVE  LatestServes'
  <2>1. /\ Active(r) /\ overlapped' = overlapped
        /\ \A q \in Runs : Latest(q)' <=> Latest(q)
    BY <1>1, <1>4, ActFacts, ActsLaunchNothing DEF LaunchInv
  <2>2. SUFFICES ASSUME Latest(r), r \notin overlapped, WorkingOn(r)' \/ exporter'[r].pc = "exported"
                 PROVE  /\ path' \in DOMAIN files' /\ files'[path'].by = r
                        /\ WorkingOn(r)' => exporter'[r].file = path'
    BY <1>1, <2>1 DEF LatestServes, LaunchInv, LatestAlone
  <2>3. ASSUME Export(r) \/ ExportDie(r)
        PROVE  /\ path' \in DOMAIN files' /\ files'[path'].by = r
               /\ WorkingOn(r)' => exporter'[r].file = path'
    <3>1. CASE ExportConnect(r)
      <4>1. exporter[r].pc = "connect"
        BY <3>1 DEF ExportConnect
      <4>2. path = Nobody
        BY <1>1, <2>2, <4>1 DEF FileInv, FilesPlaced, AloneAtThePath
      <4> QED
        BY <1>1, <3>1, <4>2, ConnectFacts
    <3>2. CASE ExportUnlink(r)
      <4>1. exporter'[r].pc \in {"connect", "died"}
        BY <1>1, <3>2, UnlinkFacts DEF Runs
      <4> QED
        BY <2>2, <4>1 DEF WorkingOn, Working, Writing
    <3>3. CASE /\ path' = path /\ Len(files') = Len(files)
               /\ \A f \in DOMAIN files : files'[f].by = files[f].by
               /\ WorkingOn(r) /\ (WorkingOn(r)' => exporter'[r].file = exporter[r].file)
      <4>1. files \in Seq(FileType) /\ files' \in Seq(FileType')
        BY <1>1, <2>3, ExportKeeps
           DEF ExportInv, ExportTypeOK, TablesTyped, BaseInv, TablesTypeOK, Runs
      <4>2. /\ path \in DOMAIN files /\ files[path].by = r
            /\ exporter[r].file = path
        BY <1>1, <2>2, <3>3 DEF LatestServes
      <4> QED
        BY <3>3, <4>1, <4>2
    <3>4. exporter'[r].pc = "exported" => ExportInsertMeta(r)
      BY <1>1, <2>3
         DEF Export, ExportDie, ExportUnlink, ExportConnect, ExportLoad, ExportCreate, ExportInsert,
             ExportWindow, ExportCreateMeta, Step, End, NoExport, ExportInv, ExportTypeOK, Runs,
             Place, ExporterType
    <3>5. ExportInsertMeta(r) => WorkingOn(r)
      BY DEF ExportInsertMeta, WorkingOn, Working, Writing
    <3>6. exporter'[r].pc # "died"
      BY <2>2 DEF WorkingOn, Working, Writing
    <3>7. exporter'[r].pc = "exported" => ~WorkingOn(r)'
      BY DEF WorkingOn, Working, Writing
    <3> QED
      BY <1>1, <2>3, <3>1, <3>2, <3>3, <3>4, <3>5, <3>6, <3>7, ExportMoved DEF ExportMoves
  <2>4. CASE \/ BuildMart(r)
             \/ \E a \in Assets :
                  \/ Start(r, a)
                  \/ \E s \in {"done", "failed"} : Materialise(r, a, s)
                  \/ a # "serving_export" /\ FailsEarly(r, a)
    <3>1. /\ exporter' = exporter
          /\ ~WorkingOn(r) /\ exporter[r].pc \notin {"connect", "exported"}
      BY <1>1, <2>4, TableActs
    <3> QED
      BY <2>2, <3>1 DEF WorkingOn
  <2>5. ExportStep(r) => Export(r)
    BY DEF ExportStep
  <2>6. FailsEarly(r, "serving_export") => ExportDie(r)
    BY DEF FailsEarly
  <2> QED
    BY <1>4, <2>3, <2>4, <2>5, <2>6 DEF Acts
<1> QED
  BY <1>1, <1>2, <1>3, <1>4, StepCases

LEMMA RestStarts ==
  ASSUME RefreshInit
  PROVE  RestInv
<1>1. /\ \A r \in Runs : exporter[r].pc = "idle"
      /\ \A r \in Runs, a \in Assets : status[r][a] = "none"
  BY DEF RefreshInit, ServingInit, NoExport, Runs
<1>2. LaunchInv /\ LatestServes
  BY <1>1 DEF LaunchInv, LaunchedWhole, LaunchedInOrder, LatestAlone, LatestServes, Latest, Unlaunched,
     WorkingOn, Working, Writing
<1> QED
  BY <1>2, FileStarts DEF RestInv

LEMMA RestKeeps ==
  ASSUME RestInv, [RefreshNext]_refreshVars
  PROVE  RestInv'
<1>1. FileInv /\ LaunchInv /\ BaseInv
  BY DEF RestInv, FileInv, LoneInv, RunInv
<1> QED
  BY <1>1, FileKeeps, LaunchKept, ServesKept DEF RestInv

\* A run with nothing to start and nothing failed has done all its assets.
LEMMA RestIsDone ==
  ASSUME BaseInv, NEW r \in Runs, ~Active(r),
         \A a \in Assets : status[r][a] \notin {"none", "failed"}
  PROVE  status[r]["serving_export"] = "done"
<1>1. ASSUME NEW a \in Assets, \A u \in Upstream[a] : status[r][u] = "done"
      PROVE  status[r][a] = "done"
  BY <1>1 DEF Active, Ready, BaseInv, TablesTypeOK, Statuses
<1>2. /\ status[r]["gtfs_static_snapshot"] = "done"
      /\ status[r]["bronze_vehicle_positions"] = "done"
  BY <1>1, UpstreamFacts, AssetFacts DEF AssetNames
<1>3. /\ status[r]["gtfs_stop_schedule_staging"] = "done"
      /\ status[r]["silver_vehicle_positions"] = "done"
  BY <1>1, <1>2, UpstreamFacts, AssetFacts DEF AssetNames
<1>4. /\ status[r]["dim_stop_schedule"] = "done"
      /\ status[r]["fct_stop_arrival"] = "done"
  BY <1>1, <1>3, UpstreamFacts, AssetFacts DEF AssetNames
<1>5. status[r]["fct_stop_otp"] = "done"
  BY <1>1, <1>4, UpstreamFacts, AssetFacts DEF AssetNames
<1>6. status[r]["dbt_marts"] = "done"
  BY <1>1, <1>5, UpstreamFacts, AssetFacts DEF AssetNames
<1> QED
  BY <1>1, <1>6, UpstreamFacts, AssetFacts DEF AssetNames

\* A run that comes to rest with no asset failed and none beside it has its
\* whole file at the path, until the next launch (definitions.py and
\* export_marts.py).
THEOREM RestServes == RefreshSpec => []RestingRunServes
<1>1. RestInv => RestingRunServes
  <2> SUFFICES ASSUME RestInv, NEW r \in Runs,
                      status[r]["serving_export"] # "none", ~Active(r), r \notin overlapped,
                      \A a \in Assets : status[r][a] # "failed",
                      \A q \in Runs : r < q => Unlaunched(q)
               PROVE  /\ path # Nobody
                      /\ files[path].by = r
                      /\ files[path].table["meta"] \in Versions
    BY DEF RestingRunServes
  <2>1. FileInv /\ RunInv /\ BaseInv /\ LaunchInv /\ LatestServes
    BY DEF RestInv, FileInv, LoneInv, RunInv
  <2>2. ~Unlaunched(r) /\ Latest(r)
    BY AssetFacts DEF Unlaunched, Latest, AssetNames
  <2>3. \A a \in Assets : status[r][a] # "none"
    BY <2>1, <2>2 DEF LaunchInv, LaunchedWhole
  <2>4. Exported(r)
    BY <2>1, <2>3, RestIsDone DEF Exported
  <2>5. exporter[r].pc = "exported"
    BY <2>1, <2>4 DEF RunInv, RunsInStep, InStep, Exported
  <2>6. path \in DOMAIN files /\ files[path].by = r
    BY <2>1, <2>2, <2>5 DEF LatestServes
  <2>7. path # Nobody
    <3>1. files \in Seq(FileType)
      BY <2>1 DEF BaseInv, ServingInv, ExportInv, ExportTypeOK
    <3> QED
      BY <2>6, <3>1 DEF Nobody
  <2> QED
    BY <2>1, <2>4, <2>6, <2>7 DEF FileInv, FilesTell, RefreshCoversItsStart
<1> QED
  BY <1>1, RestStarts, RestKeeps, PTL DEF RefreshSpec
=============================================================================

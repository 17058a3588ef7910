-------------------------- MODULE NginxProxy_proofs --------------------------
(***************************************************************************)
(* What nginx serves and can load, for any number of sites and requests,   *)
(* and that the handlers implement Rollout.                                *)
(*                                                                         *)
(* What makes it true is that the files of every site that is neither      *)
(* adrift nor being worked on are those of the committed table, and that   *)
(* how far a handler has got says what it has made of its own.             *)
(***************************************************************************)
EXTENDS NginxProxy, SequenceTheorems, TLAPS

\* The sites on whose files a handler is at work.
Wrote == IF Busy THEN op.wrote ELSE {}

Undisturbed == Sites \ (drift \cup Wrote)

\* What a handler may have left to do.
Http3   == <<"sql", "http", "reload">>
Http2   == <<"http", "reload">>
Create5 == <<"sql", "key", "crt", "conf", "reload">>
Create4 == <<"key", "crt", "conf", "reload">>
Create3 == <<"crt", "conf", "reload">>
Update4 == <<"sql", "dropConf", "conf", "reload">>
Update3 == <<"dropConf", "conf", "reload">>
Conf2   == <<"conf", "reload">>
Delete5 == <<"sql", "dropConf", "dropKey", "dropCrt", "reload">>
Delete4 == <<"dropConf", "dropKey", "dropCrt", "reload">>
Delete3 == <<"dropKey", "dropCrt", "reload">>
Delete2 == <<"dropCrt", "reload">>
Last1   == <<"reload">>
Nothing == <<>>

Left(r) ==
    IF ~IsHttps(r.site) THEN {Http3, Http2, Last1, Nothing}
    ELSE CASE r.kind = "create" -> {Create5, Create4, Create3, Conf2, Last1, Nothing}
           [] r.kind = "update" -> {Update4, Update3, Conf2, Last1, Nothing}
           [] r.kind = "delete" -> {Delete5, Delete4, Delete3, Delete2, Last1, Nothing}

\* The statement is to come, the first of the files, only the reload or nothing.
SqlFirst  == {Http3, Create5, Update4, Delete5}
Untouched == {Http2, Create4, Update3, Delete4}
FilesDone == {Last1, Nothing}

\* The transaction changes the row of its request alone, and a handler has
\* written once its first file step is done.
OpOK ==
    Busy =>
        /\ op.todo \in Left(op.req)
        /\ op.todo \in SqlFirst => op.tx = db
        /\ op.todo \notin SqlFirst =>
            /\ op.tx = Executed(op.req, db)
            /\ op.req.kind = "create" => db[op.req.site] = None
        /\ op.wrote = IF op.todo \in SqlFirst \cup Untouched THEN {} ELSE {op.req.site}

\* A handler of an http site that runs alone has the file as its transaction.
HttpOK ==
    Busy /\ ~IsHttps(op.req.site) /\ op.run = "alone" =>
        /\ op.todo \in FilesDone => disk.http = HttpRows(op.tx)
        /\ op.todo = Nothing => \A s \in HttpSites : served[s] = op.tx[s]

\* Key and certificate of an https site with the row v.
Material(x, v) ==
    /\ v = None => disk.key[x] = None
    /\ v # None => disk.key[x] # None /\ disk.key[x] = disk.crt[x]

\* The files of an https site, by how far its handler is.
HttpsOK ==
    Busy /\ IsHttps(op.req.site) =>
        LET s == op.req.site
            x == DomainOf(s) IN
        /\ op.req.kind = "create" =>
            /\ op.todo \in {Create3, Conf2} =>
                disk.key[x] = op.req.key /\ (s \notin drift => disk.conf[x] = None)
            /\ op.todo = Conf2 => disk.crt[x] = op.req.crt
            /\ op.todo \in FilesDone =>
                disk.conf[x] = op.req.url /\ disk.key[x] = op.req.key /\ disk.crt[x] = op.req.crt
        /\ op.req.kind = "update" =>
            /\ s \notin drift => Material(x, db[s])
            /\ op.todo = Conf2 => disk.conf[x] = None
            /\ op.todo \in FilesDone => disk.conf[x] = op.req.url
        /\ op.req.kind = "delete" =>
            /\ op.todo \in {Delete3, Delete2} \cup FilesDone =>
                disk.conf[x] = None
            /\ op.todo \in {Delete2} \cup FilesDone => disk.key[x] = None
        /\ op.todo = Nothing => ~Broken(disk, x) /\ served[s] = disk.conf[x]

\* Sites that are neither adrift nor being worked on have the files of the table.
DiskOK ==
    \A s \in Undisturbed :
        /\ Loaded(disk)[s] = db[s]
        /\ IsHttps(s) => Material(DomainOf(s), db[s])

\* What the keeper has read is right, but for sites adrift or being worked on;
\* a keeper or a handler that is alone is.
KeeperOK ==
    /\ keeper.pc = "write" =>
        /\ \A x \in Domains : <<"http", x>> \in Undisturbed => keeper.read[x] = db[<<"http", x>>]
        /\ keeper.run = "alone" => keeper.read = HttpRows(db)
    /\ keeper.pc = "reload" /\ keeper.run = "alone" => disk.http = HttpRows(db)
    /\ keeper.pc # "sleep" /\ keeper.run = "alone" => ~Busy
    /\ Busy => keeper.by = "keeper" /\ (op.run = "alone" => keeper.pc = "sleep")

IInv == TypeOK /\ OpOK /\ HttpOK /\ HttpsOK /\ DiskOK /\ KeeperOK /\ ServesCommitted

-----------------------------------------------------------------------------
(* What is left, and the files.                                            *)

\* How each of them goes on.
LEMMA Stages ==
    /\ Http3 # Nothing /\ Head(Http3) = "sql" /\ Tail(Http3) = Http2
    /\ Http2 # Nothing /\ Head(Http2) = "http" /\ Tail(Http2) = Last1
    /\ Create5 # Nothing /\ Head(Create5) = "sql" /\ Tail(Create5) = Create4
    /\ Create4 # Nothing /\ Head(Create4) = "key" /\ Tail(Create4) = Create3
    /\ Create3 # Nothing /\ Head(Create3) = "crt" /\ Tail(Create3) = Conf2
    /\ Update4 # Nothing /\ Head(Update4) = "sql" /\ Tail(Update4) = Update3
    /\ Update3 # Nothing /\ Head(Update3) = "dropConf" /\ Tail(Update3) = Conf2
    /\ Conf2 # Nothing /\ Head(Conf2) = "conf" /\ Tail(Conf2) = Last1
    /\ Delete5 # Nothing /\ Head(Delete5) = "sql" /\ Tail(Delete5) = Delete4
    /\ Delete4 # Nothing /\ Head(Delete4) = "dropConf" /\ Tail(Delete4) = Delete3
    /\ Delete3 # Nothing /\ Head(Delete3) = "dropKey" /\ Tail(Delete3) = Delete2
    /\ Delete2 # Nothing /\ Head(Delete2) = "dropCrt" /\ Tail(Delete2) = Last1
    /\ Last1 # Nothing /\ Head(Last1) = "reload" /\ Tail(Last1) = Nothing
<1>1. Http3 # Nothing /\ Head(Http3) = "sql" /\ Tail(Http3) = Http2
  BY DEF Http3, Http2, Nothing
<1>2. Http2 # Nothing /\ Head(Http2) = "http" /\ Tail(Http2) = Last1
  BY DEF Http2, Last1, Nothing
<1>3. Create5 # Nothing /\ Head(Create5) = "sql" /\ Tail(Create5) = Create4
  BY DEF Create5, Create4, Nothing
<1>4. Create4 # Nothing /\ Head(Create4) = "key" /\ Tail(Create4) = Create3
  BY DEF Create4, Create3, Nothing
<1>5. Create3 # Nothing /\ Head(Create3) = "crt" /\ Tail(Create3) = Conf2
  BY DEF Create3, Conf2, Nothing
<1>6. Update4 # Nothing /\ Head(Update4) = "sql" /\ Tail(Update4) = Update3
  BY DEF Update4, Update3, Nothing
<1>7. Update3 # Nothing /\ Head(Update3) = "dropConf" /\ Tail(Update3) = Conf2
  BY DEF Update3, Conf2, Nothing
<1>8. Conf2 # Nothing /\ Head(Conf2) = "conf" /\ Tail(Conf2) = Last1
  BY DEF Conf2, Last1, Nothing
<1>9. Delete5 # Nothing /\ Head(Delete5) = "sql" /\ Tail(Delete5) = Delete4
  BY DEF Delete5, Delete4, Nothing
<1>10. Delete4 # Nothing /\ Head(Delete4) = "dropConf" /\ Tail(Delete4) = Delete3
  BY DEF Delete4, Delete3, Nothing
<1>11. Delete3 # Nothing /\ Head(Delete3) = "dropKey" /\ Tail(Delete3) = Delete2
  BY DEF Delete3, Delete2, Nothing
<1>12. Delete2 # Nothing /\ Head(Delete2) = "dropCrt" /\ Tail(Delete2) = Last1
  BY DEF Delete2, Last1, Nothing
<1>13. Last1 # Nothing /\ Head(Last1) = "reload" /\ Tail(Last1) = Nothing
  BY DEF Last1, Nothing
<1> QED BY <1>1, <1>2, <1>3, <1>4, <1>5, <1>6, <1>7, <1>8, <1>9, <1>10, <1>11, <1>12, <1>13

LEMMA Three ==
  ASSUME NEW a, NEW x, NEW y, NEW z, NEW b
  PROVE  <<a>> \o <<x, y, z>> \o <<b>> = <<a, x, y, z, b>>
<1> DEFINE S == {a, x, y, z, b}
<1>1. <<a>> \in Seq(S) /\ <<x, y, z>> \in Seq(S) /\ <<b>> \in Seq(S) /\ <<a, x, y, z, b>> \in Seq(S)
  OBVIOUS
<1>2. <<a>> \o <<x, y, z>> \in Seq(S) /\ Len(<<a>> \o <<x, y, z>>) = 4
  BY <1>1, ConcatProperties, Len(<<a>>) = 1, Len(<<x, y, z>>) = 3
<1>3. <<a>> \o <<x, y, z>> \o <<b>> \in Seq(S) /\ Len(<<a>> \o <<x, y, z>> \o <<b>>) = 5
  BY <1>1, <1>2, ConcatProperties, Len(<<b>>) = 1
<1>4. \A i \in 1 .. 5 : (<<a>> \o <<x, y, z>> \o <<b>>)[i] = <<a, x, y, z, b>>[i]
  OBVIOUS
<1> QED BY <1>1, <1>3, <1>4, SeqEqual, Len(<<a, x, y, z, b>>) = 5

LEMMA Two ==
  ASSUME NEW a, NEW x, NEW y, NEW b
  PROVE  <<a>> \o <<x, y>> \o <<b>> = <<a, x, y, b>>
<1> DEFINE S == {a, x, y, b}
<1>1. <<a>> \in Seq(S) /\ <<x, y>> \in Seq(S) /\ <<b>> \in Seq(S) /\ <<a, x, y, b>> \in Seq(S)
  OBVIOUS
<1>2. <<a>> \o <<x, y>> \in Seq(S) /\ Len(<<a>> \o <<x, y>>) = 3
  BY <1>1, ConcatProperties, Len(<<a>>) = 1, Len(<<x, y>>) = 2
<1>3. <<a>> \o <<x, y>> \o <<b>> \in Seq(S) /\ Len(<<a>> \o <<x, y>> \o <<b>>) = 4
  BY <1>1, <1>2, ConcatProperties, Len(<<b>>) = 1
<1>4. \A i \in 1 .. 4 : (<<a>> \o <<x, y>> \o <<b>>)[i] = <<a, x, y, b>>[i]
  OBVIOUS
<1> QED BY <1>1, <1>3, <1>4, SeqEqual, Len(<<a, x, y, b>>) = 4

LEMMA One ==
  ASSUME NEW a, NEW x, NEW b
  PROVE  <<a>> \o <<x>> \o <<b>> = <<a, x, b>>
<1> DEFINE S == {a, x, b}
<1>1. <<a>> \in Seq(S) /\ <<x>> \in Seq(S) /\ <<b>> \in Seq(S) /\ <<a, x, b>> \in Seq(S)
  OBVIOUS
<1>2. <<a>> \o <<x>> \in Seq(S) /\ Len(<<a>> \o <<x>>) = 2
  BY <1>1, ConcatProperties, Len(<<a>>) = 1, Len(<<x>>) = 1
<1>3. <<a>> \o <<x>> \o <<b>> \in Seq(S) /\ Len(<<a>> \o <<x>> \o <<b>>) = 3
  BY <1>1, <1>2, ConcatProperties, Len(<<b>>) = 1
<1>4. \A i \in 1 .. 3 : (<<a>> \o <<x>> \o <<b>>)[i] = <<a, x, b>>[i]
  OBVIOUS
<1> QED BY <1>1, <1>3, <1>4, SeqEqual, Len(<<a, x, b>>) = 3

\* A request begins with its statement.
LEMMA TodoLeft == ASSUME NEW r \in Requests PROVE Todo(r) \in Left(r) \cap SqlFirst
<1>1. r.kind \in {"create", "update", "delete"}
  BY NginxAssumption DEF Request
<1>2. CASE ~IsHttps(r.site)
  BY <1>2, One DEF Todo, Files, Left, SqlFirst, Http3
<1>3. CASE IsHttps(r.site) /\ r.kind = "create"
  BY <1>3, Three DEF Todo, Files, Left, SqlFirst, Create5, AddHttps
<1>4. CASE IsHttps(r.site) /\ r.kind = "update"
  BY <1>4, Two DEF Todo, Files, Left, SqlFirst, Update4, UpdateHttps
<1>5. CASE IsHttps(r.site) /\ r.kind = "delete"
  BY <1>5, Three DEF Todo, Files, Left, SqlFirst, Delete5, RemoveHttps
<1> QED BY <1>1, <1>2, <1>3, <1>4, <1>5

\* What a handler has left to do are steps it can take.
LEMMA LeftType == ASSUME NEW r \in Requests PROVE Left(r) \subseteq Seq({"sql", "reload"} \cup FileSteps)
<1>1. r.kind \in {"create", "update", "delete"}
  BY NginxAssumption DEF Request
<1>2. FileSteps = {"http", "key", "crt", "conf", "dropConf", "dropKey", "dropCrt"}
  BY DEF FileSteps, Writes
<1> DEFINE S == {"sql", "reload", "http", "key", "crt", "conf", "dropConf", "dropKey", "dropCrt"}
<1>3. Http3 \in Seq(S) /\ Http2 \in Seq(S) /\ Last1 \in Seq(S) /\ Nothing \in Seq(S)
  BY DEF Http3, Http2, Last1, Nothing
<1>4. Create5 \in Seq(S) /\ Create4 \in Seq(S) /\ Create3 \in Seq(S) /\ Conf2 \in Seq(S)
  BY DEF Create5, Create4, Create3, Conf2
<1>5. Update4 \in Seq(S) /\ Update3 \in Seq(S)
  BY DEF Update4, Update3
<1>6. Delete5 \in Seq(S) /\ Delete4 \in Seq(S) /\ Delete3 \in Seq(S) /\ Delete2 \in Seq(S)
  BY DEF Delete5, Delete4, Delete3, Delete2
<1>7. S = {"sql", "reload"} \cup FileSteps
  BY <1>2
<1> HIDE DEF S
<1> QED BY <1>1, <1>3, <1>4, <1>5, <1>6, <1>7 DEF Left

\* A site is http or https, and has a domain.
LEMMA SiteParts ==
  ASSUME NEW s \in Sites
  PROVE  /\ s = <<s[1], s[2]>> /\ s[2] \in Domains
         /\ s \in HttpSites <=> ~IsHttps(s)
         /\ IsHttps(s) => s = <<"https", s[2]>>
         /\ ~IsHttps(s) => s = <<"http", s[2]>>
BY DEF Sites, Schemes, HttpSites, IsHttps

\* Each step changes one file of the request's site.
LEMMA Changed ==
  ASSUME NEW do \in FileSteps, NEW r \in Requests, NEW d \in Db, NEW files \in DiskType
  PROVE  LET x == DomainOf(r.site)
             new == FilesAfter(do, r, d, files) IN
         /\ new \in DiskType
         /\ new.http = IF do = "http" THEN HttpRows(d) ELSE files.http
         /\ \A y \in Domains :
             /\ new.key[y] = IF y = x /\ do = "key" THEN r.key
                             ELSE IF y = x /\ do = "dropKey" THEN None ELSE files.key[y]
             /\ new.crt[y] = IF y = x /\ do = "crt" THEN r.crt
                             ELSE IF y = x /\ do = "dropCrt" THEN None ELSE files.crt[y]
             /\ new.conf[y] = IF y = x /\ do = "conf" THEN r.url
                              ELSE IF y = x /\ do = "dropConf" THEN None ELSE files.conf[y]
<1> DEFINE x == DomainOf(r.site)
<1>1. r.key \in Pairs /\ r.crt \in Pairs /\ r.url \in Urls /\ x \in Domains
  BY NginxAssumption, SiteParts DEF Request, DomainOf
<1>2. HttpRows(d) \in HttpFile
  BY DEF HttpRows, HttpFile, Db, Sites, Schemes
<1> HIDE DEF x
<1>3. do \in {"http", "key", "crt", "conf", "dropConf", "dropKey", "dropCrt"}
  BY DEF FileSteps, Writes
<1>4. FilesAfter(do, r, d, files) =
        CASE do = "http"     -> [files EXCEPT !.http = HttpRows(d)]
          [] do = "key"      -> [files EXCEPT !.key[x] = r.key]
          [] do = "crt"      -> [files EXCEPT !.crt[x] = r.crt]
          [] do = "conf"     -> [files EXCEPT !.conf[x] = r.url]
          [] do = "dropConf" -> [files EXCEPT !.conf[x] = None]
          [] do = "dropKey"  -> [files EXCEPT !.key[x] = None]
          [] do = "dropCrt"  -> [files EXCEPT !.crt[x] = None]
  BY DEF FilesAfter, x
<1>5. SUFFICES LET new == FilesAfter(do, r, d, files) IN
         /\ new \in DiskType
         /\ new.http = IF do = "http" THEN HttpRows(d) ELSE files.http
         /\ \A y \in Domains :
             /\ new.key[y] = IF y = x /\ do = "key" THEN r.key
                             ELSE IF y = x /\ do = "dropKey" THEN None ELSE files.key[y]
             /\ new.crt[y] = IF y = x /\ do = "crt" THEN r.crt
                             ELSE IF y = x /\ do = "dropCrt" THEN None ELSE files.crt[y]
             /\ new.conf[y] = IF y = x /\ do = "conf" THEN r.url
                              ELSE IF y = x /\ do = "dropConf" THEN None ELSE files.conf[y]
  BY DEF x
<1>6. CASE do = "http"
  BY <1>1, <1>2, <1>4, <1>6 DEF DiskType, HttpFile
<1>7. CASE do = "key"
  BY <1>1, <1>2, <1>4, <1>7 DEF DiskType, HttpFile
<1>8. CASE do = "crt"
  BY <1>1, <1>2, <1>4, <1>8 DEF DiskType, HttpFile
<1>9. CASE do = "conf"
  BY <1>1, <1>2, <1>4, <1>9 DEF DiskType, HttpFile
<1>10. CASE do = "dropConf"
  BY <1>1, <1>2, <1>4, <1>10 DEF DiskType, HttpFile
<1>11. CASE do = "dropKey"
  BY <1>1, <1>2, <1>4, <1>11 DEF DiskType, HttpFile
<1>12. CASE do = "dropCrt"
  BY <1>1, <1>2, <1>4, <1>12 DEF DiskType, HttpFile
<1> QED BY <1>3, <1>6, <1>7, <1>8, <1>9, <1>10, <1>11, <1>12

\* A write that fails empties one file.
LEMMA Emptied ==
  ASSUME NEW do \in Writes, NEW x, NEW files \in DiskType
  PROVE  LET new == Truncated(do, x, files) IN
         /\ new \in DiskType
         /\ do # "http" => new.http = files.http
         /\ \A y \in Domains :
             y # x \/ do = "http" =>
                 new.key[y] = files.key[y] /\ new.crt[y] = files.crt[y] /\ new.conf[y] = files.conf[y]
<1>1. do \in {"http", "key", "crt", "conf"}
  BY DEF Writes
<1>2. CASE do = "http"
  BY <1>2 DEF Truncated, DiskType, HttpFile
<1>3. CASE do = "key"
  BY <1>3 DEF Truncated, DiskType, HttpFile
<1>4. CASE do = "crt"
  BY <1>4 DEF Truncated, DiskType, HttpFile
<1>5. CASE do = "conf"
  BY <1>5 DEF Truncated, DiskType, HttpFile
<1> QED BY <1>1, <1>2, <1>3, <1>4, <1>5

\* The statement changes one row.
LEMMA ExecutedRow ==
  ASSUME NEW r \in Requests, NEW d \in Db
  PROVE  /\ Executed(r, d) \in Db
         /\ \A s \in Sites : s # r.site => Executed(r, d)[s] = d[s]
         /\ Executed(r, d)[r.site] = CASE r.kind = "create" -> r.url
                                       [] r.kind = "update" -> IF d[r.site] = None THEN None ELSE r.url
                                       [] r.kind = "delete" -> None
BY NginxAssumption DEF Executed, Db, Request

\* What nginx loads of each site.
LEMMA LoadedSite ==
  ASSUME NEW files \in DiskType
  PROVE  /\ Loaded(files) \in Db
         /\ \A s \in Sites : Loaded(files)[s] = IF IsHttps(s) THEN files.conf[s[2]] ELSE files.http[s[2]]
BY SiteParts DEF Loaded, DiskType, HttpFile, Db, DomainOf

LEMMA RowsOf ==
  ASSUME NEW d \in Db
  PROVE  /\ HttpRows(d) \in HttpFile
         /\ \A s \in Sites : ~IsHttps(s) => HttpRows(d)[s[2]] = d[s]
         /\ \A x \in Domains : HttpRows(d)[x] = d[<<"http", x>>]
BY SiteParts DEF HttpRows, HttpFile, Db, Sites, Schemes

-----------------------------------------------------------------------------
(* The invariant is inductive.                                             *)

LEMMA InitInv == Init => IInv
<1> SUFFICES ASSUME Init PROVE IInv
  OBVIOUS
<1> USE NginxAssumption DEF Init
<1>1. TypeOK
  <2>1. disk \in DiskType
    BY DEF DiskType, HttpFile, HttpRows, Db, Sites, Schemes
  <2>2. keeper \in KeeperType
    BY RowsOf DEF Booting, Asleep, KeeperType
  <2> QED BY <2>1, <2>2 DEF TypeOK
<1>2. ~Busy /\ Wrote = {}
  BY DEF Busy, Idle, Wrote
<1>3. OpOK /\ HttpOK /\ HttpsOK
  BY <1>2 DEF OpOK, HttpOK, HttpsOK
<1>4. DiskOK
  <2> SUFFICES ASSUME NEW s \in Sites
               PROVE  Loaded(disk)[s] = db[s] /\ (IsHttps(s) => Material(DomainOf(s), db[s]))
    BY <1>2 DEF DiskOK, Undisturbed
  <2>1. disk \in DiskType
    BY <1>1 DEF TypeOK
  <2> QED BY <2>1, SiteParts, LoadedSite, RowsOf DEF Material, DomainOf
<1>5. KeeperOK
  BY <1>2 DEF KeeperOK, Booting, Asleep
<1>6. ServesCommitted
  BY DEF ServesCommitted
<1> QED BY <1>1, <1>3, <1>4, <1>5, <1>6 DEF IInv

LEMMA StutterInv == IInv /\ UNCHANGED vars => IInv'
BY DEF IInv, vars, bounds, TypeOK, OpOK, HttpOK, HttpsOK, DiskOK, KeeperOK, ServesCommitted,
       Busy, Wrote, Undisturbed, Material, Broken, At

LEMMA ReceiveInv == ASSUME IInv, NEW r \in Requests, Receive(r) PROVE IInv'
<1> USE NginxAssumption DEF IInv, Receive
<1>1. op' \in OpType /\ op'.req = r /\ op'.todo \in Left(r) \cap SqlFirst /\ op'.tx = db /\ op'.wrote = {}
  BY TodoLeft, LeftType DEF OpType, TypeOK
<1>2. keeper' \in KeeperType
  <2>1. Exited.by = "boot"
    BY DEF Exited, Asleep
  <2>2. keeper \in KeeperType
    BY <2>1 DEF TypeOK
  <2> QED BY <2>2 DEF KeeperType
<1>3. TypeOK'
  BY <1>1, <1>2 DEF TypeOK
<1>4. Wrote = {} /\ Wrote' = {} /\ Undisturbed' = Undisturbed /\ Busy'
  <2>1. Wrote = {} /\ Wrote' = {} /\ Busy'
    BY <1>1 DEF Wrote, Busy, OpType
  <2> QED BY <2>1 DEF Undisturbed
<1>5. OpOK'
  BY <1>1 DEF OpOK, SqlFirst, Untouched
<1>6. op'.todo \notin FilesDone /\ op'.todo \notin {Create3, Conf2, Delete3, Delete2, Nothing}
  BY SMTT(30), <1>1, Stages DEF SqlFirst, FilesDone
<1>7. HttpOK'
  BY <1>6 DEF HttpOK, FilesDone
<1>8. HttpsOK'
  <2>1. r.site \in Sites
    BY DEF Request
  <2>2. r.site \notin drift /\ IsHttps(r.site) => Material(DomainOf(r.site), db[r.site])'
    BY <1>4, <2>1 DEF DiskOK, Material, Undisturbed
  <2> QED BY <1>1, <1>6, <2>2 DEF HttpsOK, FilesDone
<1>9. DiskOK'
  BY <1>4 DEF DiskOK, Material
<1>10. KeeperOK'
  BY <1>4 DEF KeeperOK, TypeOK, Exited, Asleep, KeeperType
<1>11. ServesCommitted'
  BY <1>1, <1>4 DEF ServesCommitted, Wrote
<1> QED BY <1>3, <1>5, <1>7, <1>8, <1>9, <1>10, <1>11

\* Where a handler stands before one of its steps, and after it.
LEMMA Stands ==
  ASSUME TypeOK, OpOK, Busy, op.todo # <<>>,
         op'.todo = Tail(op.todo)
  PROVE  /\ op'.todo \in Left(op.req) /\ op'.todo \notin SqlFirst
         /\ op.todo \in SqlFirst <=> Step = "sql"
         /\ op.todo \in SqlFirst <=> op'.todo \in Untouched
         /\ Step = "reload" <=> op.todo = Last1
         /\ op'.todo = Nothing <=> op.todo = Last1
         /\ op'.todo \in FilesDone =>
             \/ op'.todo = Nothing
             \/ Step = "http" /\ ~IsHttps(op.req.site)
             \/ Step = "conf" /\ IsHttps(op.req.site) /\ op.req.kind \in {"create", "update"}
             \/ Step = "dropCrt" /\ IsHttps(op.req.site) /\ op.req.kind = "delete"
         /\ op'.todo = Conf2 =>
             \/ op.req.kind = "create" /\ Step = "crt" /\ op.todo = Create3
             \/ op.req.kind = "update" /\ Step = "dropConf"
         /\ op'.todo = Create3 => Step = "key" /\ op.todo = Create4
         /\ op'.todo = Delete3 => Step = "dropConf"
         /\ op'.todo = Delete2 => Step = "dropKey" /\ op.todo = Delete3
         /\ Step = "dropCrt" => op.todo = Delete2
         /\ Step = "conf" => op.todo = Conf2
         /\ ~IsHttps(op.req.site) => Step \in {"sql", "http", "reload"}
         /\ IsHttps(op.req.site) => Step # "http"
         /\ IsHttps(op.req.site) /\ op.req.kind = "update" => Step \in {"sql", "dropConf", "conf", "reload"}
<1>1. op \in OpType
  BY DEF TypeOK, Busy, Idle
<1>2. op.req.kind \in {"create", "update", "delete"}
  BY <1>1, NginxAssumption DEF OpType, Request
<1>3. op.todo # Nothing
  BY DEF Nothing
<1>4. CASE ~IsHttps(op.req.site)
  <2>1. op.todo \in {Http3, Http2, Last1}
    BY <1>3, <1>4 DEF OpOK, Left
  <2>2. CASE op.todo = Http3
    BY <1>4, <2>2, Stages DEF Step, Left, SqlFirst, Untouched, FilesDone
  <2>3. CASE op.todo = Http2
    BY ZenonT(30), <1>4, <2>3, Stages DEF Step, Left, SqlFirst, Untouched, FilesDone
  <2>4. CASE op.todo = Last1
    BY <1>4, <2>4, Stages DEF Step, Left, SqlFirst, Untouched, FilesDone
  <2> QED BY <2>1, <2>2, <2>3, <2>4
<1>5. CASE IsHttps(op.req.site) /\ op.req.kind = "create"
  <2>1. op.todo \in {Create5, Create4, Create3, Conf2, Last1}
    BY <1>3, <1>5 DEF OpOK, Left
  <2>2. CASE op.todo = Create5
    BY <1>5, <2>2, Stages DEF Step, Left, SqlFirst, Untouched, FilesDone
  <2>3. CASE op.todo = Create4
    BY <1>5, <2>3, Stages DEF Step, Left, SqlFirst, Untouched, FilesDone
  <2>4. CASE op.todo = Create3
    BY ZenonT(30), <1>5, <2>4, Stages DEF Step, Left, SqlFirst, Untouched, FilesDone
  <2>5. CASE op.todo = Conf2
    BY ZenonT(30), <1>5, <2>5, Stages DEF Step, Left, SqlFirst, Untouched, FilesDone
  <2>6. CASE op.todo = Last1
    BY <1>5, <2>6, Stages DEF Step, Left, SqlFirst, Untouched, FilesDone
  <2> QED BY <2>1, <2>2, <2>3, <2>4, <2>5, <2>6
<1>6. CASE IsHttps(op.req.site) /\ op.req.kind = "update"
  <2>1. op.todo \in {Update4, Update3, Conf2, Last1}
    BY <1>3, <1>6 DEF OpOK, Left
  <2>2. CASE op.todo = Update4
    BY <1>6, <2>2, Stages DEF Step, Left, SqlFirst, Untouched, FilesDone
  <2>3. CASE op.todo = Update3
    BY ZenonT(30), <1>6, <2>3, Stages DEF Step, Left, SqlFirst, Untouched, FilesDone
  <2>4. CASE op.todo = Conf2
    BY ZenonT(30), <1>6, <2>4, Stages DEF Step, Left, SqlFirst, Untouched, FilesDone
  <2>5. CASE op.todo = Last1
    BY <1>6, <2>5, Stages DEF Step, Left, SqlFirst, Untouched, FilesDone
  <2> QED BY <2>1, <2>2, <2>3, <2>4, <2>5
<1>7. CASE IsHttps(op.req.site) /\ op.req.kind = "delete"
  <2>1. op.todo \in {Delete5, Delete4, Delete3, Delete2, Last1}
    BY <1>3, <1>7 DEF OpOK, Left
  <2>2. CASE op.todo = Delete5
    BY <1>7, <2>2, Stages DEF Step, Left, SqlFirst, Untouched, FilesDone
  <2>3. CASE op.todo = Delete4
    BY <1>7, <2>3, Stages DEF Step, Left, SqlFirst, Untouched, FilesDone
  <2>4. CASE op.todo = Delete3
    BY <1>7, <2>4, Stages DEF Step, Left, SqlFirst, Untouched, FilesDone
  <2>5. CASE op.todo = Delete2
    BY ZenonT(30), <1>7, <2>5, Stages DEF Step, Left, SqlFirst, Untouched, FilesDone
  <2>6. CASE op.todo = Last1
    BY <1>7, <2>6, Stages DEF Step, Left, SqlFirst, Untouched, FilesDone
  <2> QED BY <2>1, <2>2, <2>3, <2>4, <2>5, <2>6
<1> QED BY <1>2, <1>4, <1>5, <1>6, <1>7

\* A handler that takes a step keeps its request and its type.
LEMMA Goes ==
  ASSUME TypeOK, OpOK, Busy, op.todo # <<>>
  PROVE  /\ op \in OpType /\ op.req.site \in Sites /\ DomainOf(op.req.site) \in Domains
         /\ op.req.kind \in {"create", "update", "delete"} /\ op.req.url \in Urls
         /\ Tail(op.todo) \in Seq({"sql", "reload"} \cup FileSteps)
<1>1. op \in OpType
  BY DEF TypeOK, Busy, Idle
<1>2. op.req.site \in Sites /\ op.req.kind \in {"create", "update", "delete"} /\ op.req.url \in Urls
  BY <1>1, NginxAssumption DEF OpType, Request
<1>3. DomainOf(op.req.site) \in Domains
  BY <1>2, SiteParts DEF DomainOf
<1>4. op.todo \in Seq({"sql", "reload"} \cup FileSteps)
  BY <1>1 DEF OpType
<1> QED BY <1>1, <1>2, <1>3, <1>4

LEMMA StatementInv == ASSUME IInv, Statement PROVE IInv'
<1> USE DEF IInv
<1>1. /\ Busy /\ op.todo # <<>> /\ Step = "sql"
      /\ op.req.kind = "create" => op.tx[op.req.site] = None
      /\ op' = [op EXCEPT !.todo = Tail(@), !.tx = Executed(op.req, @)]
      /\ UNCHANGED <<db, disk, served, keeper, bounds, drift>>
  BY DEF Statement, At
<1>2. op \in OpType /\ Tail(op.todo) \in Seq({"sql", "reload"} \cup FileSteps)
  BY <1>1, Goes
<1>3. /\ op'.todo = Tail(op.todo) /\ op'.tx = Executed(op.req, op.tx)
      /\ op'.req = op.req /\ op'.wrote = op.wrote /\ op'.run = op.run /\ op'.pc = op.pc
  BY <1>1, <1>2 DEF OpType
<1>4. op' \in OpType
  BY <1>1, <1>2, ExecutedRow DEF OpType
<1>5. TypeOK'
  BY <1>1, <1>4 DEF TypeOK, bounds
<1>6. op.todo \in SqlFirst /\ op'.todo \in Untouched /\ op'.todo \in Left(op.req) /\ op'.todo \notin SqlFirst
  BY <1>1, <1>3, Stands
<1>7. op.tx = db /\ op.wrote = {}
  BY <1>1, <1>6 DEF OpOK
<1>8. Busy' /\ Wrote' = Wrote
  BY <1>1, <1>3 DEF Busy, Wrote
<1>9. Undisturbed' = Undisturbed
  BY <1>1, <1>8 DEF Undisturbed
<1>10. OpOK'
  BY <1>1, <1>3, <1>6, <1>7 DEF OpOK
<1>11. op'.todo \notin FilesDone /\ op'.todo \notin {Create3, Conf2, Delete3, Delete2, Nothing}
  BY <1>6, Stages DEF Untouched, FilesDone
<1>12. HttpOK'
  BY <1>11 DEF HttpOK, FilesDone
<1>13. HttpsOK'
  <2>1. UNCHANGED <<db, disk, drift>>
    BY <1>1
  <2>2. ASSUME IsHttps(op.req.site), op.req.kind = "update", op.req.site \notin drift
        PROVE  Material(DomainOf(op.req.site), db[op.req.site])'
    BY <1>1, <1>3, <2>2 DEF HttpsOK, Material
  <2> QED BY <1>3, <1>11, <2>1, <2>2 DEF HttpsOK, FilesDone
<1>14. DiskOK'
  BY <1>1, <1>9 DEF DiskOK, Material
<1>15. KeeperOK'
  BY <1>1, <1>3, <1>9 DEF KeeperOK
<1>16. ServesCommitted'
  BY <1>1, <1>8 DEF ServesCommitted, Wrote
<1> QED BY <1>5, <1>10, <1>12, <1>13, <1>14, <1>15, <1>16

LEMMA ChangeFileInv == ASSUME IInv, ChangeFile PROVE IInv'
<1> USE DEF IInv
<1> DEFINE s == op.req.site
           x == DomainOf(s)
<1>1. /\ Busy /\ op.todo # <<>> /\ Step \in FileSteps
      /\ disk' = FilesAfter(Step, op.req, op.tx, disk)
      /\ op' = [op EXCEPT !.todo = Tail(@), !.wrote = {op.req.site}]
      /\ UNCHANGED <<db, served, keeper, bounds, drift>>
  BY DEF ChangeFile, At
<1>2. /\ op \in OpType /\ s \in Sites /\ x \in Domains
      /\ op.req.kind \in {"create", "update", "delete"}
      /\ Tail(op.todo) \in Seq({"sql", "reload"} \cup FileSteps)
  BY <1>1, Goes
<1>3. /\ op'.todo = Tail(op.todo) /\ op'.wrote = {s}
      /\ op'.req = op.req /\ op'.tx = op.tx /\ op'.run = op.run /\ op'.pc = op.pc
  BY <1>1, <1>2 DEF OpType
<1>4. op' \in OpType
  BY <1>1, <1>2 DEF OpType
<1>5. /\ op.req \in Requests /\ op.tx \in Db /\ disk \in DiskType /\ db \in Db
  BY <1>2 DEF OpType, TypeOK
<1>6. /\ disk' \in DiskType
      /\ disk'.http = IF Step = "http" THEN HttpRows(op.tx) ELSE disk.http
      /\ \A y \in Domains :
          /\ disk'.key[y] = IF y = x /\ Step = "key" THEN op.req.key
                            ELSE IF y = x /\ Step = "dropKey" THEN None ELSE disk.key[y]
          /\ disk'.crt[y] = IF y = x /\ Step = "crt" THEN op.req.crt
                            ELSE IF y = x /\ Step = "dropCrt" THEN None ELSE disk.crt[y]
          /\ disk'.conf[y] = IF y = x /\ Step = "conf" THEN op.req.url
                             ELSE IF y = x /\ Step = "dropConf" THEN None ELSE disk.conf[y]
  BY <1>1, <1>5, Changed
<1>7. TypeOK'
  BY <1>1, <1>4, <1>6 DEF TypeOK, bounds
<1>8. Step # "sql" /\ Step # "reload"
  BY <1>1 DEF FileSteps, Writes
<1>9. /\ op'.todo \in Left(op.req) /\ op'.todo \notin SqlFirst /\ op.todo \notin SqlFirst
      /\ op'.todo \notin Untouched /\ op.todo # Last1 /\ op'.todo # Nothing
  BY <1>1, <1>3, <1>8, Stands
<1>10. op.wrote \subseteq {s} /\ op.tx = Executed(op.req, db) /\ (op.req.kind = "create" => db[s] = None)
  BY <1>1, <1>9 DEF OpOK
<1>11. Busy' /\ Wrote' = {s} /\ Wrote \subseteq {s}
  BY <1>1, <1>3, <1>10 DEF Busy, Wrote
<1>12. Undisturbed' \subseteq Undisturbed /\ s \notin Undisturbed'
  BY <1>1, <1>11 DEF Undisturbed
<1>13. OpOK'
  BY <1>1, <1>3, <1>9, <1>10 DEF OpOK
<1>14. HttpOK'
  <2> SUFFICES ASSUME ~IsHttps(s), op'.todo \in FilesDone PROVE disk'.http = HttpRows(op.tx)
    BY <1>3, <1>9 DEF HttpOK
  <2>1. Step = "http"
    BY <1>1, <1>3, <1>9, Stands
  <2> QED BY <2>1, <1>6
<1>15. HttpsOK'
  <2> HIDE DEF s, x
  <2> SUFFICES ASSUME IsHttps(s)
               PROVE  /\ op.req.kind = "create" =>
                          /\ op'.todo \in {Create3, Conf2} =>
                              disk'.key[x] = op.req.key /\ (s \notin drift => disk'.conf[x] = None)
                          /\ op'.todo = Conf2 => disk'.crt[x] = op.req.crt
                          /\ op'.todo \in FilesDone =>
                              disk'.conf[x] = op.req.url /\ disk'.key[x] = op.req.key
                              /\ disk'.crt[x] = op.req.crt
                      /\ op.req.kind = "update" =>
                          /\ s \notin drift => Material(x, db[s])'
                          /\ op'.todo = Conf2 => disk'.conf[x] = None
                          /\ op'.todo \in FilesDone => disk'.conf[x] = op.req.url
                      /\ op.req.kind = "delete" =>
                          /\ op'.todo \in {Delete3, Delete2} \cup FilesDone => disk'.conf[x] = None
                          /\ op'.todo \in {Delete2} \cup FilesDone => disk'.key[x] = None
    BY <1>1, <1>3, <1>9 DEF HttpsOK, s, x
  <2>1. CASE op.req.kind = "create"
    <3>1. op'.todo \in {Create3, Conf2} => disk'.key[x] = op.req.key
      <4>1. op'.todo = Create3 => Step = "key"
        BY <1>1, <1>3, Stands
      <4>2. op'.todo = Conf2 => Step = "crt" /\ op.todo = Create3
        BY <1>1, <1>3, <2>1, Stands
      <4>3. op.todo = Create3 => disk.key[x] = op.req.key
        BY <1>1, <2>1 DEF HttpsOK, s, x
      <4> QED BY <1>2, <1>6, <4>1, <4>2, <4>3
    <3>2. op'.todo \in {Create3, Conf2} /\ s \notin drift => disk'.conf[x] = None
      <4>1. op'.todo = Create3 => Step = "key" /\ op.todo \in Untouched
        BY <1>1, <1>3, Stands DEF Untouched
      <4>2. op'.todo = Conf2 => Step = "crt" /\ op.todo = Create3
        BY <1>1, <1>3, <2>1, Stands
      <4>3. op.todo = Create3 /\ s \notin drift => disk.conf[x] = None
        BY <1>1, <2>1 DEF HttpsOK, s, x
      <4>4. op.todo \in Untouched /\ s \notin drift => s \in Undisturbed
        BY <1>1, <1>2 DEF OpOK, Undisturbed, Wrote, s
      <4>5. op.todo \in Untouched /\ s \notin drift => Loaded(disk)[s] = None
        BY <1>10, <2>1, <4>4 DEF DiskOK, s
      <4>6. Loaded(disk)[s] = disk.conf[x]
        BY <1>2, <1>5, LoadedSite DEF s, x, DomainOf
      <4> QED BY <1>2, <1>6, <4>1, <4>2, <4>3, <4>5, <4>6
    <3>3. op'.todo = Conf2 => disk'.crt[x] = op.req.crt
      <4>1. op'.todo = Conf2 => Step = "crt"
        BY <1>1, <1>3, <2>1, Stands
      <4> QED BY <1>2, <1>6, <4>1
    <3>4. op'.todo \in FilesDone => Step = "conf" /\ op.todo = Conf2
      BY <1>1, <1>3, <1>9, <2>1, Stands DEF s
    <3>5. op.todo = Conf2 => disk.key[x] = op.req.key /\ disk.crt[x] = op.req.crt
      BY <1>1, <2>1 DEF HttpsOK, s, x
    <3> QED BY <1>2, <1>6, <2>1, <3>1, <3>2, <3>3, <3>4, <3>5
  <2>2. CASE op.req.kind = "update"
    <3>1. Step \in {"sql", "dropConf", "conf", "reload"}
      BY <1>1, <1>3, <2>2, Stands DEF s
    <3>2. s \notin drift => Material(x, db[s])
      BY <1>1, <2>2 DEF HttpsOK, s, x
    <3>3. s \notin drift => Material(x, db[s])'
      BY <1>1, <1>2, <1>3, <1>6, <3>1, <3>2 DEF Material, s, x
    <3>4. op'.todo = Conf2 => Step = "dropConf"
      BY <1>1, <1>3, <2>2, Stands
    <3>5. op'.todo \in FilesDone => Step = "conf"
      BY <1>1, <1>3, <1>9, <2>2, Stands DEF s
    <3> QED BY <1>2, <1>6, <2>2, <3>3, <3>4, <3>5
  <2>3. CASE op.req.kind = "delete"
    <3>1. op'.todo = Delete3 => Step = "dropConf"
      BY <1>1, <1>3, Stands
    <3>2. op'.todo = Delete2 => Step = "dropKey" /\ op.todo = Delete3
      BY <1>1, <1>3, Stands
    <3>3. op'.todo \in FilesDone => Step = "dropCrt" /\ op.todo = Delete2
      BY <1>1, <1>3, <1>9, <2>3, Stands DEF s
    <3>4. op.todo \in {Delete3, Delete2} => disk.conf[x] = None
      BY <1>1, <2>3 DEF HttpsOK, s, x
    <3>5. op.todo = Delete2 => disk.key[x] = None
      BY <1>1, <2>3 DEF HttpsOK, s, x
    <3> QED BY <1>2, <1>6, <2>3, <3>1, <3>2, <3>3, <3>4, <3>5
  <2> QED BY <1>2, <2>1, <2>2, <2>3
<1>16. DiskOK'
  <2> HIDE DEF s, x
  <2> SUFFICES ASSUME NEW t \in Undisturbed', t \in Undisturbed, t # s, t \in Sites
               PROVE  Loaded(disk)[t]' = db[t] /\ (IsHttps(t) => Material(DomainOf(t), db[t])')
    BY <1>1, <1>12 DEF DiskOK, Undisturbed
  <2>1. Loaded(disk)[t] = db[t] /\ (IsHttps(t) => Material(DomainOf(t), db[t]))
    BY DEF DiskOK
  <2>2. Loaded(disk)[t]' = IF IsHttps(t) THEN disk'.conf[t[2]] ELSE disk'.http[t[2]]
    BY <1>6, LoadedSite
  <2>3. Loaded(disk)[t] = IF IsHttps(t) THEN disk.conf[t[2]] ELSE disk.http[t[2]]
    BY <1>5, LoadedSite
  <2>4. IsHttps(t) /\ IsHttps(s) => t[2] # x
    BY <1>2, SiteParts DEF s, x, DomainOf
  <2>5. ~IsHttps(s) => Step = "http"
    BY <1>1, <1>3, <1>8, Stands DEF s
  <2>6. CASE IsHttps(t)
    <3>1. t[2] \in Domains /\ (t[2] # x \/ Step = "http")
      BY <2>4, <2>5, <2>6, SiteParts
    <3>2. disk'.key[t[2]] = disk.key[t[2]] /\ disk'.crt[t[2]] = disk.crt[t[2]] /\ disk'.conf[t[2]] = disk.conf[t[2]]
      BY <1>6, <3>1
    <3>3. Material(t[2], db[t])' <=> Material(t[2], db[t])
      BY <1>1, <3>2 DEF Material
    <3> QED BY <2>1, <2>2, <2>3, <2>6, <3>2, <3>3 DEF DomainOf
  <2>7. CASE ~IsHttps(t)
    <3>1. IsHttps(s) => Step # "http"
      BY <1>1, <1>3, Stands DEF s
    <3>2. HttpRows(op.tx)[t[2]] = op.tx[t]
      BY <1>5, <2>7, RowsOf
    <3>3. op.tx[t] = db[t]
      BY <1>5, <1>10, ExecutedRow DEF s
    <3> QED BY <1>6, <2>1, <2>2, <2>3, <2>5, <2>7, <3>1, <3>2, <3>3
  <2> QED BY <2>6, <2>7
<1>17. KeeperOK'
  <2>1. keeper.pc # "sleep" => keeper.run # "alone"
    BY <1>1 DEF KeeperOK
  <2>2. UNCHANGED <<db, keeper>> /\ op'.run = op.run /\ Busy /\ Busy'
    BY <1>1, <1>3, <1>11
  <2> HIDE DEF s, x
  <2> QED BY <1>12, <2>1, <2>2 DEF KeeperOK
<1>18. ServesCommitted'
  BY <1>1, <1>11 DEF ServesCommitted, Wrote
<1> QED BY <1>7, <1>13, <1>14, <1>15, <1>16, <1>17, <1>18

\* What nginx loads of a site that is not adrift and not being worked on.
LEMMA LoadsCommitted == ASSUME TypeOK, DiskOK PROVE \A s \in Undisturbed : Loaded(disk)[s] = db[s]
BY DEF DiskOK

LEMMA ReloadInv == ASSUME IInv, Reload PROVE IInv'
<1> USE DEF IInv
<1> DEFINE s == op.req.site
           x == DomainOf(s)
<1>1. /\ Busy /\ op.todo # <<>> /\ Step = "reload" /\ ReloadDone
      /\ op' = [op EXCEPT !.todo = Tail(@)]
      /\ UNCHANGED <<db, disk, keeper, bounds, drift>>
  BY DEF Reload, At
<1>2. /\ op \in OpType /\ s \in Sites /\ x \in Domains
      /\ Tail(op.todo) \in Seq({"sql", "reload"} \cup FileSteps)
  BY <1>1, Goes
<1>3. /\ op'.todo = Tail(op.todo) /\ op'.wrote = op.wrote
      /\ op'.req = op.req /\ op'.tx = op.tx /\ op'.run = op.run /\ op'.pc = op.pc
  BY <1>1, <1>2 DEF OpType
<1>4. op' \in OpType
  BY <1>1, <1>2 DEF OpType
<1>5. disk \in DiskType /\ op.tx \in Db
  BY <1>2 DEF TypeOK, OpType
<1>6. served' \in Db /\ served' = Loaded(disk)
  BY <1>1, <1>5, LoadedSite DEF ReloadDone
<1>7. TypeOK'
  BY <1>1, <1>4, <1>6 DEF TypeOK, bounds
<1>8. op.todo = Last1 /\ op'.todo = Nothing /\ op'.todo \in Left(op.req) /\ op'.todo \notin SqlFirst /\ op.todo \notin SqlFirst
  BY <1>1, <1>3, Stands
<1>9. op.todo \notin Untouched /\ op'.todo \notin Untouched /\ op'.todo \notin {Create3, Conf2, Delete3, Delete2}
  BY <1>8, Stages DEF Untouched
<1>10. Busy' /\ Wrote' = Wrote
  BY <1>1, <1>3 DEF Busy, Wrote
<1>11. Undisturbed' = Undisturbed
  BY <1>1, <1>10 DEF Undisturbed
<1>12. OpOK'
  BY <1>1, <1>3, <1>8, <1>9 DEF OpOK
<1>13. HttpOK'
  <2> SUFFICES ASSUME ~IsHttps(s), op.run = "alone"
               PROVE  disk.http = HttpRows(op.tx) /\ \A t \in HttpSites : served'[t] = op.tx[t]
    BY <1>1, <1>3 DEF HttpOK
  <2>1. disk.http = HttpRows(op.tx)
    BY <1>1, <1>8 DEF HttpOK, FilesDone
  <2>2. ASSUME NEW t \in HttpSites PROVE served'[t] = op.tx[t]
    <3>1. t \in Sites /\ ~IsHttps(t)
      BY DEF HttpSites, Sites, Schemes, IsHttps
    <3>2. served'[t] = disk.http[t[2]] /\ HttpRows(op.tx)[t[2]] = op.tx[t]
      BY <1>5, <1>6, <3>1, LoadedSite, RowsOf
    <3> QED BY <2>1, <3>2
  <2> QED BY <2>1, <2>2
<1>14. HttpsOK'
  <2> SUFFICES ASSUME IsHttps(s)
               PROVE  /\ op.req.kind = "create" =>
                          disk.conf[x] = op.req.url /\ disk.key[x] = op.req.key /\ disk.crt[x] = op.req.crt
                      /\ op.req.kind = "update" =>
                          (s \notin drift => Material(x, db[s])') /\ disk.conf[x] = op.req.url
                      /\ op.req.kind = "delete" => disk.conf[x] = None /\ disk.key[x] = None
                      /\ ~Broken(disk, x) /\ served'[s] = disk.conf[x]
    BY <1>1, <1>3, <1>8, <1>9 DEF HttpsOK
  <2>1. ~Broken(disk, x) /\ served'[s] = disk.conf[x]
    BY <1>1, <1>2, <1>5, <1>6, LoadedSite DEF ReloadDone, DomainOf
  <2>2. op.req.kind = "create" =>
          disk.conf[x] = op.req.url /\ disk.key[x] = op.req.key /\ disk.crt[x] = op.req.crt
    BY <1>1, <1>8 DEF HttpsOK, FilesDone
  <2>3. op.req.kind = "update" => (s \notin drift => Material(x, db[s])) /\ disk.conf[x] = op.req.url
    BY <1>1, <1>8 DEF HttpsOK, FilesDone
  <2>4. Material(x, db[s])' <=> Material(x, db[s])
    BY <1>1, <1>3 DEF Material
  <2>5. op.req.kind = "delete" => disk.conf[x] = None /\ disk.key[x] = None
    BY <1>1, <1>8 DEF HttpsOK, FilesDone
  <2> QED BY <2>1, <2>2, <2>3, <2>4, <2>5
<1>15. DiskOK'
  BY <1>1, <1>11 DEF DiskOK, Material
<1>16. KeeperOK'
  <2>1. UNCHANGED <<db, disk, keeper>> /\ op'.run = op.run /\ Busy /\ Busy'
    BY <1>1, <1>3, <1>10
  <2> HIDE DEF s, x
  <2> QED BY <1>11, <2>1 DEF KeeperOK
<1>17. ServesCommitted'
  BY <1>1, <1>6, <1>11, LoadsCommitted DEF ServesCommitted, Undisturbed, Wrote
<1> QED BY <1>7, <1>12, <1>13, <1>14, <1>15, <1>16, <1>17

\* What a commit finds: the table, the files and nginx have the site as the
\* transaction has it, unless it is an update nothing came of.
LEMMA Finished ==
  ASSUME IInv, Busy, op.todo = <<>>
  PROVE  /\ op \in OpType /\ op.req \in Requests /\ op.req.site \in Sites /\ op.wrote = {op.req.site}
         /\ op.tx \in Db /\ \A t \in Sites : t # op.req.site => op.tx[t] = db[t]
         /\ ~IsHttps(op.req.site) /\ op.run = "alone" =>
             disk.http = HttpRows(op.tx) /\ \A t \in HttpSites : served[t] = op.tx[t]
         /\ IsHttps(op.req.site) /\ (Stray => op.req.site \notin drift) =>
             /\ ~Stray
             /\ disk.conf[DomainOf(op.req.site)] = op.tx[op.req.site]
             /\ served[op.req.site] = op.tx[op.req.site]
             /\ Material(DomainOf(op.req.site), op.tx[op.req.site])
<1> USE DEF IInv
<1> DEFINE s == op.req.site
           x == DomainOf(s)
<1>1. op \in OpType /\ op.req \in Requests /\ s \in Sites /\ op.tx \in Db
      /\ op.req.kind \in {"create", "update", "delete"} /\ op.req.url \in Urls /\ op.req.key \in Pairs
  <2>1. op \in OpType
    BY DEF TypeOK, Busy, Idle
  <2> QED BY <2>1, NginxAssumption DEF OpType, Request
<1>2. op.todo = Nothing /\ op.todo \in FilesDone /\ op.todo \notin SqlFirst /\ op.todo \notin Untouched
  BY Stages DEF FilesDone, Nothing, SqlFirst, Untouched
<1>3. op.wrote = {s} /\ op.tx = Executed(op.req, db)
  BY <1>2 DEF OpOK
<1>4. db \in Db
  BY DEF TypeOK
<1>5. \A t \in Sites : t # s => op.tx[t] = db[t]
  BY <1>1, <1>3, <1>4, ExecutedRow
<1>6. op.tx[s] = CASE op.req.kind = "create" -> op.req.url
                   [] op.req.kind = "update" -> IF db[s] = None THEN None ELSE op.req.url
                   [] op.req.kind = "delete" -> None
  BY <1>1, <1>3, <1>4, ExecutedRow
<1>7. ~IsHttps(s) /\ op.run = "alone" =>
        disk.http = HttpRows(op.tx) /\ \A t \in HttpSites : served[t] = op.tx[t]
  BY <1>2 DEF HttpOK
<1>8. ASSUME IsHttps(s), Stray => s \notin drift
      PROVE  ~Stray /\ disk.conf[x] = op.tx[s] /\ served[s] = op.tx[s] /\ Material(x, op.tx[s])
  <2>1. ~Broken(disk, x) /\ served[s] = disk.conf[x]
    BY <1>2, <1>8 DEF HttpsOK
  <2>2. None \notin Urls /\ None \notin Pairs
    BY NginxAssumption
  <2>3. CASE op.req.kind = "create"
    <3>1. disk.conf[x] = op.req.url /\ disk.key[x] = op.req.key
      BY <1>2, <1>8, <2>3 DEF HttpsOK
    <3> QED BY <1>1, <1>6, <2>1, <2>2, <2>3, <3>1 DEF Stray, Broken, Material
  <2>4. CASE op.req.kind = "update"
    <3>1. disk.conf[x] = op.req.url /\ (s \notin drift => Material(x, db[s]))
      BY <1>2, <1>8, <2>4 DEF HttpsOK
    <3>2. disk.conf[x] # None /\ disk.key[x] # None /\ disk.key[x] = disk.crt[x]
      BY <1>1, <2>1, <2>2, <3>1 DEF Broken
    <3>3. ~Stray
      BY <1>6, <1>8, <2>4, <3>1, <3>2 DEF Stray, Material
    <3>4. op.tx[s] # None
      BY <1>8, <2>4, <3>3 DEF Stray
    <3>5. op.tx[s] = op.req.url
      BY <1>6, <2>4, <3>4
    <3> QED BY <2>1, <3>1, <3>2, <3>3, <3>4, <3>5 DEF Material
  <2>5. CASE op.req.kind = "delete"
    <3>1. disk.conf[x] = None /\ disk.key[x] = None
      BY <1>2, <1>8, <2>5 DEF HttpsOK
    <3> QED BY <1>6, <2>1, <2>5, <3>1 DEF Stray, Material
  <2> QED BY <1>1, <2>3, <2>4, <2>5
<1> QED BY <1>1, <1>3, <1>5, <1>7, <1>8

\* An http site has the http file written, an https site never has.
LEMMA StepOfSite ==
  ASSUME TypeOK, OpOK, Busy, op.todo # <<>>, Step # "sql", Step # "reload"
  PROVE  Step = "http" <=> ~IsHttps(op.req.site)
<1>1. op.req.kind \in {"create", "update", "delete"}
  BY Goes
<1>2. op.todo \in Left(op.req) /\ op.todo # Nothing
  BY DEF OpOK, Nothing
<1>3. CASE ~IsHttps(op.req.site)
  BY <1>2, <1>3, Stages DEF Left, Step
<1>4. CASE IsHttps(op.req.site) /\ op.req.kind = "create"
  BY <1>2, <1>4, Stages DEF Left, Step
<1>5. CASE IsHttps(op.req.site) /\ op.req.kind = "update"
  BY <1>2, <1>5, Stages DEF Left, Step
<1>6. CASE IsHttps(op.req.site) /\ op.req.kind = "delete"
  BY <1>2, <1>6, Stages DEF Left, Step
<1> QED BY <1>1, <1>3, <1>4, <1>5, <1>6

LEMMA CommitInv == ASSUME IInv, Commit PROVE IInv'
<1> USE DEF IInv
<1> DEFINE s == op.req.site
           x == DomainOf(s)
<1>1. /\ Busy /\ op.todo = <<>> /\ db' = op.tx /\ drift' = (drift \ Settled) \cup Unsure
      /\ op' = Idle /\ UNCHANGED <<disk, served, keeper, bounds>>
  BY DEF Commit
<1>2. /\ op.req \in Requests /\ s \in Sites /\ op.wrote = {s} /\ op.tx \in Db
      /\ \A t \in Sites : t # s => op.tx[t] = db[t]
      /\ op.run \in {"alone", "together"}
  <2>1. op \in OpType
    BY <1>1, Finished
  <2>2. op.run \in {"alone", "together"}
    BY <2>1 DEF OpType
  <2> QED BY <1>1, <2>2, Finished
<1>3. Settled \subseteq Sites /\ Unsure \subseteq Sites
  BY <1>2 DEF Settled, Unsure, HttpSites, Sites, Schemes
<1>4. TypeOK'
  BY <1>1, <1>2, <1>3 DEF TypeOK, bounds
<1>5. ~Busy' /\ Wrote' = {} /\ Wrote = {s}
  BY <1>1, <1>2 DEF Busy, Idle, Wrote
<1>6. OpOK' /\ HttpOK' /\ HttpsOK'
  BY <1>5 DEF OpOK, HttpOK, HttpsOK
<1>7. ASSUME NEW t \in Undisturbed'
      PROVE  /\ t \in Sites /\ Loaded(disk)[t] = op.tx[t] /\ served[t] = op.tx[t]
             /\ IsHttps(t) => Material(DomainOf(t), op.tx[t])
  <2>1. t \in Sites /\ t \notin drift'
    BY <1>5 DEF Undisturbed
  <2>2. disk \in DiskType
    BY DEF TypeOK
  <2>3. Loaded(disk)[t] = IF IsHttps(t) THEN disk.conf[DomainOf(t)] ELSE disk.http[DomainOf(t)]
    BY <2>1, <2>2, LoadedSite DEF DomainOf
  <2>4. CASE t # s /\ t \notin drift
    <3>1. t \in Undisturbed
      BY <1>5, <2>1, <2>4 DEF Undisturbed
    <3>2. Loaded(disk)[t] = db[t] /\ (IsHttps(t) => Material(DomainOf(t), db[t]))
      BY <3>1 DEF DiskOK
    <3>3. served[t] = db[t]
      BY <3>1 DEF ServesCommitted, Undisturbed, Wrote
    <3> QED BY <1>2, <2>1, <2>4, <3>2, <3>3
  <2>5. CASE IsHttps(s) /\ t = s
    <3>1. Stray => s \notin drift
      BY <1>1, <2>1, <2>5 DEF Settled
    <3> QED BY <1>1, <2>1, <2>3, <2>5, <3>1, Finished
  <2>6. CASE ~IsHttps(s) /\ (t = s \/ t \in drift)
    <3>1. op.run = "alone" /\ t \in HttpSites
      BY <1>1, <1>2, <2>1, <2>6, SiteParts DEF Settled, Unsure
    <3>2. ~IsHttps(t)
      BY <2>1, <3>1, SiteParts
    <3>3. disk.http = HttpRows(op.tx) /\ served[t] = op.tx[t]
      BY <1>1, <2>6, <3>1, Finished
    <3>4. HttpRows(op.tx)[DomainOf(t)] = op.tx[t]
      BY <1>2, <2>1, <3>2, RowsOf DEF DomainOf
    <3> QED BY <2>1, <2>3, <3>2, <3>3, <3>4
  <2>7. CASE IsHttps(s) /\ t \in drift /\ t # s
    BY <1>1, <2>1, <2>7 DEF Settled
  <2> QED BY <2>4, <2>5, <2>6, <2>7
<1>8. DiskOK'
  <2>1. \A y, v : Material(y, v)' <=> Material(y, v)
    BY <1>1 DEF Material
  <2> QED BY <1>1, <1>7, <2>1 DEF DiskOK
<1>9. KeeperOK'
  <2>1. keeper.pc # "sleep" => keeper.run # "alone"
    BY <1>1 DEF KeeperOK
  <2>2. ASSUME keeper.pc = "write", NEW y \in Domains, <<"http", y>> \in Undisturbed'
        PROVE  keeper.read[y] = op.tx[<<"http", y>>]
    <3> DEFINE t == <<"http", y>>
    <3>1. t \in Sites /\ t \in HttpSites /\ ~IsHttps(t) /\ t \notin drift'
      BY <1>5, <2>2 DEF Undisturbed, HttpSites, Sites, Schemes, IsHttps
    <3>2. op.run # "alone"
      BY <1>1, <2>2 DEF KeeperOK
    <3>3. t # s /\ t \notin drift
      BY <1>1, <1>2, <3>1, <3>2 DEF Settled, Unsure
    <3>4. t \in Undisturbed
      BY <1>5, <3>1, <3>3 DEF Undisturbed
    <3> QED BY <1>2, <2>2, <3>1, <3>3, <3>4 DEF KeeperOK
  <2> QED BY <1>1, <1>5, <2>1, <2>2 DEF KeeperOK
<1>10. ServesCommitted'
  BY <1>1, <1>5, <1>7 DEF ServesCommitted, Undisturbed, Wrote
<1> QED BY <1>4, <1>6, <1>8, <1>9, <1>10

LEMMA FailsInv == ASSUME IInv, Fails PROVE IInv'
<1> USE DEF IInv
<1> DEFINE s == op.req.site
           x == DomainOf(s)
<1>1. Busy /\ op' = Idle /\ UNCHANGED <<db, keeper, bounds>>
  BY DEF Fails
<1>2. op \in OpType /\ s \in Sites /\ op.wrote \subseteq Sites /\ disk \in DiskType
  <2>1. op \in OpType
    BY <1>1 DEF TypeOK, Busy, Idle
  <2> QED BY <2>1, NginxAssumption DEF TypeOK, OpType, Request
<1>3. ~Busy' /\ Wrote' = {} /\ Wrote = op.wrote
  BY <1>1 DEF Busy, Idle, Wrote
<1>4. OpOK' /\ HttpOK' /\ HttpsOK'
  BY <1>3 DEF OpOK, HttpOK, HttpsOK
<1>5. op.wrote \subseteq {s}
  BY <1>1 DEF OpOK
<1>6. keeper.pc # "sleep" => keeper.run # "alone"
  BY <1>1 DEF KeeperOK
<1>7. ASSUME UNCHANGED disk, drift' = drift \cup op.wrote,
             served' = served \/ served' = Loaded(disk)
      PROVE  TypeOK' /\ DiskOK' /\ KeeperOK' /\ ServesCommitted'
  <2>1. Undisturbed' = Undisturbed
    BY <1>3, <1>7 DEF Undisturbed
  <2>2. TypeOK'
    BY <1>1, <1>2, <1>7, LoadedSite DEF TypeOK, bounds
  <2>3. DiskOK'
    BY <1>1, <1>7, <2>1 DEF DiskOK, Material
  <2>4. KeeperOK'
    BY <1>1, <1>3, <1>6, <2>1 DEF KeeperOK
  <2>5. \A t \in Undisturbed : served[t] = db[t] /\ Loaded(disk)[t] = db[t]
    BY DEF ServesCommitted, DiskOK, Undisturbed, Wrote
  <2>6. ServesCommitted'
    BY <1>1, <1>3, <1>7, <2>1, <2>5 DEF ServesCommitted, Undisturbed
  <2> QED BY <2>2, <2>3, <2>4, <2>6
<1>8. ASSUME At(Writes), disk' = Truncated(Step, x, disk), UNCHANGED served,
             drift' = drift \cup (IF Step = "http" THEN HttpSites ELSE {s})
      PROVE  TypeOK' /\ DiskOK' /\ KeeperOK' /\ ServesCommitted'
  <2>1. op.todo # <<>> /\ Step \in Writes
    BY <1>8 DEF At
  <2>2. /\ disk' \in DiskType
        /\ Step # "http" => disk'.http = disk.http
        /\ \A y \in Domains : y # x \/ Step = "http" =>
             disk'.key[y] = disk.key[y] /\ disk'.crt[y] = disk.crt[y] /\ disk'.conf[y] = disk.conf[y]
    BY <1>2, <1>8, <2>1, Emptied
  <2>3. HttpSites \subseteq Sites
    BY DEF HttpSites, Sites, Schemes
  <2>4. TypeOK'
    BY <1>1, <1>2, <1>8, <2>2, <2>3 DEF TypeOK, bounds
  <2>5. Step # "sql" /\ Step # "reload"
    BY <2>1 DEF Writes
  <2>6. (IsHttps(s) => Step # "http") /\ (~IsHttps(s) => Step = "http")
    BY <1>1, <2>1, <2>5, StepOfSite
  <2>7. s \in drift' /\ op.wrote \subseteq drift'
    BY <1>2, <1>5, <1>8, <2>6, SiteParts
  <2>8. Undisturbed' \subseteq Undisturbed /\ (Step = "http" => Undisturbed' \cap HttpSites = {}) /\ s \notin Undisturbed'
    BY <1>3, <1>8, <2>7 DEF Undisturbed
  <2>9. DiskOK'
    <3> SUFFICES ASSUME NEW t \in Sites, t \in Undisturbed, t \in Undisturbed', t # s
                 PROVE  Loaded(disk)[t]' = db[t] /\ (IsHttps(t) => Material(DomainOf(t), db[t])')
      BY <1>1, <2>8 DEF DiskOK, Undisturbed
    <3>1. Loaded(disk)[t] = db[t] /\ (IsHttps(t) => Material(DomainOf(t), db[t]))
      BY DEF DiskOK
    <3>2. Loaded(disk)[t]' = IF IsHttps(t) THEN disk'.conf[DomainOf(t)] ELSE disk'.http[DomainOf(t)]
      BY <2>2, LoadedSite DEF DomainOf
    <3>3. Loaded(disk)[t] = IF IsHttps(t) THEN disk.conf[DomainOf(t)] ELSE disk.http[DomainOf(t)]
      BY <1>2, LoadedSite DEF DomainOf
    <3>4. CASE IsHttps(t)
      <4>1. DomainOf(t) \in Domains /\ (DomainOf(t) # x \/ Step = "http")
        BY <1>2, <2>6, <3>4, SiteParts DEF DomainOf
      <4>2. UNCHANGED <<disk.key[DomainOf(t)], disk.crt[DomainOf(t)], disk.conf[DomainOf(t)]>>
        BY <2>2, <4>1
      <4>3. Material(DomainOf(t), db[t])' <=> Material(DomainOf(t), db[t])
        BY <1>1, <4>2 DEF Material
      <4> QED BY <3>1, <3>2, <3>3, <3>4, <4>2, <4>3
    <3>5. CASE ~IsHttps(t)
      <4>1. Step # "http"
        BY <2>8, <3>5, SiteParts
      <4> QED BY <2>2, <3>1, <3>2, <3>3, <3>5, <4>1
    <3> QED BY <3>4, <3>5
  <2>10. KeeperOK'
    BY <1>1, <1>3, <1>6, <2>8 DEF KeeperOK
  <2>11. ServesCommitted'
    BY <1>1, <1>3, <1>8, <2>8 DEF ServesCommitted, Undisturbed, Wrote
  <2> QED BY <2>4, <2>9, <2>10, <2>11
<1>9. CASE UNCHANGED <<disk, served>> /\ drift' = drift \cup op.wrote
  BY <1>4, <1>7, <1>9
<1>10. CASE At({"reload"}) /\ ReloadDone /\ UNCHANGED disk /\ drift' = drift \cup op.wrote
  BY <1>4, <1>7, <1>10 DEF ReloadDone
<1>11. CASE /\ At(Writes) /\ disk' = Truncated(Step, x, disk)
            /\ drift' = drift \cup (IF Step = "http" THEN HttpSites ELSE {s})
            /\ UNCHANGED served
  BY <1>4, <1>8, <1>11
<1> QED BY <1>9, <1>10, <1>11 DEF Fails

-----------------------------------------------------------------------------
(* The keeper, and crashes.                                                *)

LEMMA KeeperWakesInv == ASSUME IInv, KeeperWakes PROVE IInv'
<1> USE DEF IInv
<1>1. /\ keeper.pc = "sleep"
      /\ keeper' = [Asleep EXCEPT !.pc = "list", !.run = IF Busy THEN "together" ELSE "alone"]
      /\ op' = IF Busy THEN [op EXCEPT !.run = "together"] ELSE op
      /\ UNCHANGED <<db, disk, served, bounds, drift>>
  BY DEF KeeperWakes
<1>2. keeper' \in KeeperType /\ keeper'.pc = "list" /\ keeper'.by = "keeper"
      /\ (keeper'.run = "alone" => ~Busy)
  BY <1>1, NginxAssumption, RowsOf DEF Asleep, KeeperType
<1>3. Busy' = Busy /\ Wrote' = Wrote /\ (Busy => op \in OpType /\ op' \in OpType /\ op'.run = "together"
          /\ op'.req = op.req /\ op'.todo = op.todo /\ op'.tx = op.tx /\ op'.wrote = op.wrote)
  <2>1. CASE Busy
    <3>1. op \in OpType
      BY <2>1 DEF TypeOK, Busy, Idle
    <3>2. /\ op' \in OpType /\ op'.run = "together" /\ op'.pc = op.pc
          /\ op'.req = op.req /\ op'.todo = op.todo /\ op'.tx = op.tx /\ op'.wrote = op.wrote
      BY <1>1, <2>1, <3>1 DEF OpType
    <3> QED BY <2>1, <3>1, <3>2 DEF Busy, Wrote
  <2>2. CASE ~Busy
    BY <1>1, <2>2 DEF Busy, Wrote
  <2> QED BY <2>1, <2>2
<1>4. Undisturbed' = Undisturbed
  BY <1>1, <1>3 DEF Undisturbed
<1>5. TypeOK'
  BY <1>1, <1>2, <1>3 DEF TypeOK, bounds
<1>6. OpOK'
  BY <1>1, <1>3 DEF OpOK
<1>7. HttpOK'
  BY <1>3 DEF HttpOK
<1>8. HttpsOK'
  <2>1. \A y, v : Material(y, v)' <=> Material(y, v)
    BY <1>1 DEF Material
  <2>2. \A y : Broken(disk, y)' <=> Broken(disk, y)
    BY <1>1 DEF Broken
  <2>3. UNCHANGED <<db, disk, served, drift>>
    BY <1>1
  <2> QED BY <1>3, <2>1, <2>2, <2>3 DEF HttpsOK
<1>9. DiskOK'
  BY <1>1, <1>4 DEF DiskOK, Material
<1>10. KeeperOK'
  BY <1>2, <1>3 DEF KeeperOK
<1>11. ServesCommitted'
  BY <1>1, <1>3 DEF ServesCommitted, Wrote
<1> QED BY <1>5, <1>6, <1>7, <1>8, <1>9, <1>10, <1>11

\* The keeper is not at work during a handler that is alone.
LEMMA NotAlone == ASSUME KeeperOK, keeper.pc # "sleep" PROVE Busy => op.run # "alone" /\ keeper.run # "alone"
BY DEF KeeperOK

LEMMA KeeperListsInv == ASSUME IInv, KeeperLists PROVE IInv'
<1> USE DEF IInv
<1>1. /\ keeper.pc = "list" /\ keeper' = [keeper EXCEPT !.pc = "write", !.read = HttpRows(db)]
      /\ UNCHANGED <<db, op, bounds, disk, served, drift>>
  BY DEF KeeperLists, KeeperAt
<1>2. keeper \in KeeperType /\ db \in Db
  BY <1>1 DEF TypeOK, Exited, Asleep
<1>3. /\ keeper' \in KeeperType /\ keeper'.pc = "write" /\ keeper'.read = HttpRows(db)
      /\ keeper'.by = keeper.by /\ keeper'.run = keeper.run
  BY <1>1, <1>2, RowsOf DEF KeeperType
<1>4. TypeOK'
  BY <1>1, <1>3 DEF TypeOK, bounds
<1>5. Busy' = Busy /\ Undisturbed' = Undisturbed /\ Wrote' = Wrote
  BY <1>1 DEF Busy, Undisturbed, Wrote
<1>6. OpOK' /\ HttpOK' /\ HttpsOK' /\ DiskOK' /\ ServesCommitted'
  BY <1>1, <1>5 DEF OpOK, HttpOK, HttpsOK, DiskOK, ServesCommitted, Material, Broken, Wrote
<1>7. KeeperOK'
  <2>1. \A y \in Domains : HttpRows(db)[y] = db[<<"http", y>>]
    BY <1>2, RowsOf
  <2>2. HttpRows(db') = HttpRows(db)
    BY <1>1
  <2> QED BY <1>1, <1>3, <1>5, <2>1, <2>2 DEF KeeperOK
<1> QED BY <1>4, <1>6, <1>7

LEMMA KeeperWritesInv == ASSUME IInv, KeeperWrites PROVE IInv'
<1> USE DEF IInv
<1>1. /\ keeper.pc = "write" /\ keeper' = [keeper EXCEPT !.pc = "reload"]
      /\ disk' = [disk EXCEPT !.http = keeper.read]
      /\ UNCHANGED <<db, op, bounds, served, drift>>
  BY DEF KeeperWrites, KeeperAt
<1>2. keeper \in KeeperType /\ disk \in DiskType
  BY <1>1 DEF TypeOK, Exited, Asleep
<1>3. keeper' \in KeeperType /\ keeper'.pc = "reload" /\ keeper'.by = keeper.by /\ keeper'.run = keeper.run
  BY <1>1, <1>2 DEF KeeperType
<1>4. /\ disk' \in DiskType /\ disk'.http = keeper.read
      /\ disk'.conf = disk.conf /\ disk'.key = disk.key /\ disk'.crt = disk.crt
  BY <1>1, <1>2 DEF DiskType, KeeperType
<1>5. TypeOK'
  BY <1>1, <1>3, <1>4 DEF TypeOK, bounds
<1>6. Busy' = Busy /\ Undisturbed' = Undisturbed /\ Wrote' = Wrote
  BY <1>1 DEF Busy, Undisturbed, Wrote
<1>7. OpOK' /\ ServesCommitted'
  BY <1>1, <1>6 DEF OpOK, ServesCommitted, Wrote
<1>8. Busy => op.run # "alone" /\ keeper.run # "alone"
  BY <1>1, NotAlone
<1>9. HttpOK'
  BY <1>1, <1>6, <1>8 DEF HttpOK
<1>10. (\A y, v : Material(y, v)' <=> Material(y, v)) /\ (\A y : Broken(disk, y)' <=> Broken(disk, y))
  BY <1>4 DEF Material, Broken
<1>11. HttpsOK'
  BY <1>1, <1>4, <1>6, <1>10 DEF HttpsOK
<1>12. DiskOK'
  <2> SUFFICES ASSUME NEW t \in Undisturbed
               PROVE  Loaded(disk)[t]' = db[t] /\ (IsHttps(t) => Material(DomainOf(t), db[t])')
    BY <1>1, <1>6 DEF DiskOK
  <2>1. t \in Sites /\ Loaded(disk)[t] = db[t] /\ (IsHttps(t) => Material(DomainOf(t), db[t]))
    BY DEF DiskOK, Undisturbed
  <2>2. Loaded(disk)[t]' = IF IsHttps(t) THEN disk'.conf[t[2]] ELSE disk'.http[t[2]]
    BY <1>4, <2>1, LoadedSite
  <2>3. Loaded(disk)[t] = IF IsHttps(t) THEN disk.conf[t[2]] ELSE disk.http[t[2]]
    BY <1>2, <2>1, LoadedSite
  <2>4. ~IsHttps(t) => t = <<"http", t[2]>> /\ t[2] \in Domains
    BY <2>1, SiteParts
  <2>5. ~IsHttps(t) => keeper.read[t[2]] = db[t]
    BY <1>1, <2>4 DEF KeeperOK
  <2> QED BY <1>1, <1>4, <1>10, <2>1, <2>2, <2>3, <2>5
<1>13. KeeperOK'
  <2>1. keeper.run = "alone" => keeper.read = HttpRows(db)
    BY <1>1 DEF KeeperOK
  <2>2. HttpRows(db)' = HttpRows(db)
    BY <1>1 DEF HttpRows
  <2> QED BY <1>1, <1>3, <1>4, <1>6, <1>8, <2>1, <2>2 DEF KeeperOK
<1> QED BY <1>5, <1>7, <1>9, <1>11, <1>12, <1>13

LEMMA KeeperReloadsInv == ASSUME IInv, KeeperReloads PROVE IInv'
<1> USE DEF IInv
<1>1. /\ keeper.pc = "reload" /\ keeper' = Asleep /\ ReloadDone
      /\ drift' = IF keeper.run = "alone" THEN drift \ HttpSites ELSE drift
      /\ UNCHANGED <<db, op, bounds, disk>>
  BY DEF KeeperReloads, KeeperAt
<1>2. disk \in DiskType /\ db \in Db /\ served' = Loaded(disk) /\ served' \in Db
  BY <1>1, LoadedSite DEF TypeOK, ReloadDone
<1>3. keeper' \in KeeperType /\ keeper'.pc = "sleep" /\ keeper'.by = "keeper"
  BY <1>1, NginxAssumption, RowsOf DEF Asleep, KeeperType
<1>4. TypeOK'
  BY <1>1, <1>2, <1>3 DEF TypeOK, bounds
<1>5. Busy' = Busy /\ Wrote' = Wrote /\ (Busy => op.run # "alone" /\ drift' = drift)
  BY <1>1, NotAlone DEF Busy, Wrote
<1>6. OpOK' /\ HttpOK'
  BY <1>1, <1>5 DEF OpOK, HttpOK
<1>7. HttpsOK'
  <2>1. (\A y, v : Material(y, v)' <=> Material(y, v)) /\ (\A y : Broken(disk, y)' <=> Broken(disk, y))
    BY <1>1 DEF Material, Broken
  <2>2. ASSUME Busy, IsHttps(op.req.site)
        PROVE  ~Broken(disk, DomainOf(op.req.site)) /\ served'[op.req.site] = disk.conf[DomainOf(op.req.site)]
    <3>1. op \in OpType
      BY <2>2 DEF TypeOK, Busy, Idle
    <3>2. op.req.site \in Sites
      BY <3>1, NginxAssumption DEF OpType, Request
    <3> QED BY <1>1, <1>2, <2>2, <3>2, LoadedSite, SiteParts DEF ReloadDone, DomainOf
  <2> QED BY <1>1, <1>5, <2>1, <2>2 DEF HttpsOK
<1>8. DiskOK'
  <2> SUFFICES ASSUME NEW t \in Undisturbed'
               PROVE  Loaded(disk)[t] = db[t] /\ (IsHttps(t) => Material(DomainOf(t), db[t]))
    BY <1>1 DEF DiskOK, Material
  <2>1. t \in Sites /\ t \notin drift' /\ t \notin Wrote
    BY <1>5 DEF Undisturbed
  <2>2. CASE t \in Undisturbed
    BY <2>2 DEF DiskOK
  <2>3. CASE t \notin Undisturbed
    <3>1. t \in HttpSites /\ keeper.run = "alone"
      BY <1>1, <2>1, <2>3 DEF Undisturbed
    <3>2. ~IsHttps(t) /\ disk.http = HttpRows(db)
      BY <1>1, <2>1, <3>1, SiteParts DEF KeeperOK
    <3> QED BY <1>2, <2>1, <3>2, LoadedSite, RowsOf
  <2> QED BY <2>2, <2>3
<1>9. KeeperOK'
  BY <1>3, <1>5 DEF KeeperOK
<1>10. ServesCommitted'
  BY <1>1, <1>2, <1>5, <1>8 DEF ServesCommitted, DiskOK, Undisturbed, Wrote
<1> QED BY <1>4, <1>6, <1>7, <1>8, <1>9, <1>10

LEMMA KeeperFailsInv == ASSUME IInv, KeeperFails PROVE IInv'
<1> USE DEF IInv
<1>1. /\ keeper.pc # "sleep" /\ keeper.pc # "exited"
      /\ keeper' = IF keeper.by = "boot" THEN Exited ELSE Asleep
      /\ UNCHANGED <<db, served, op, bounds>>
  BY DEF KeeperFails
<1>2. keeper' = Exited \/ keeper' \in KeeperType
  BY <1>1, NginxAssumption, RowsOf DEF Asleep, KeeperType
<1>3. disk \in DiskType /\ HttpSites \subseteq Sites
  BY DEF TypeOK, HttpSites, Sites, Schemes
<1>4. \/ UNCHANGED <<disk, drift>>
      \/ disk' = Truncated("http", None, disk) /\ drift' = drift \cup HttpSites
  BY <1>1 DEF KeeperFails
<1>5. /\ disk' \in DiskType /\ drift \subseteq drift' /\ drift' \subseteq drift \cup HttpSites
      /\ \A y \in Domains :
          disk'.key[y] = disk.key[y] /\ disk'.crt[y] = disk.crt[y] /\ disk'.conf[y] = disk.conf[y]
      /\ disk'.http = disk.http \/ drift' = drift \cup HttpSites
  <2>1. CASE UNCHANGED <<disk, drift>>
    BY <1>3, <2>1
  <2>2. CASE disk' = Truncated("http", None, disk) /\ drift' = drift \cup HttpSites
    BY <1>3, <2>2, Emptied DEF Writes
  <2> QED BY <1>4, <2>1, <2>2
<1>6. TypeOK'
  BY <1>1, <1>2, <1>3, <1>5 DEF TypeOK, bounds
<1>7. Busy' = Busy /\ Wrote' = Wrote /\ (Busy => op.run # "alone" /\ keeper.by = "keeper")
  BY <1>1, NotAlone DEF Busy, Wrote, KeeperOK
<1>8. OpOK' /\ HttpOK'
  BY <1>1, <1>7 DEF OpOK, HttpOK
<1>9. /\ \A y \in Domains : \A v : Material(y, v)' <=> Material(y, v)
      /\ \A y \in Domains : Broken(disk, y)' <=> Broken(disk, y)
  BY <1>5 DEF Material, Broken
<1>10. HttpsOK'
  <2> SUFFICES ASSUME Busy, IsHttps(op.req.site) PROVE HttpsOK'
    BY <1>1, <1>7 DEF HttpsOK
  <2>1. op \in OpType
    BY DEF TypeOK, Busy, Idle
  <2>2. op.req.site \in Sites
    BY <2>1, NginxAssumption DEF OpType, Request
  <2>3. DomainOf(op.req.site) \in Domains /\ (op.req.site \in drift' => op.req.site \in drift)
    BY <1>5, <2>2, SiteParts DEF DomainOf
  <2> QED BY <1>1, <1>5, <1>7, <1>9, <2>3 DEF HttpsOK
<1>11. Undisturbed' \subseteq Undisturbed
  BY <1>5, <1>7 DEF Undisturbed
<1>12. DiskOK'
  <2> SUFFICES ASSUME NEW t \in Undisturbed', t \in Undisturbed, t \in Sites, t \notin drift'
               PROVE  Loaded(disk)[t]' = db[t] /\ (IsHttps(t) => Material(DomainOf(t), db[t])')
    BY <1>1, <1>11 DEF DiskOK, Undisturbed
  <2>1. Loaded(disk)[t] = db[t] /\ (IsHttps(t) => Material(DomainOf(t), db[t]))
    BY DEF DiskOK
  <2>2. t[2] \in Domains /\ (~IsHttps(t) => disk'.http = disk.http)
    BY <1>5, SiteParts
  <2>3. Loaded(disk)[t]' = Loaded(disk)[t]
    BY <1>3, <1>5, <2>2, LoadedSite
  <2> QED BY <1>1, <1>9, <2>1, <2>2, <2>3 DEF DomainOf
<1>13. KeeperOK'
  <2>1. CASE Busy
    <3>1. keeper'.pc = "sleep" /\ keeper'.by = "keeper"
      BY <1>1, <1>7, <2>1 DEF Asleep
    <3> QED BY <1>1, <3>1 DEF KeeperOK
  <2>2. CASE ~Busy
    <3>1. keeper'.pc \in {"sleep", "exited"}
      BY <1>1 DEF Asleep, Exited
    <3> QED BY <1>7, <2>2, <3>1 DEF KeeperOK
  <2> QED BY <2>1, <2>2
<1>14. ServesCommitted'
  BY <1>1, <1>5, <1>7 DEF ServesCommitted, Wrote
<1> QED BY <1>6, <1>8, <1>10, <1>12, <1>13, <1>14

LEMMA AgentRestartsInv == ASSUME IInv, AgentRestarts PROVE IInv'
<1> USE DEF IInv
<1>1. /\ crashes < MaxCrashes /\ crashes' = crashes + 1 /\ op' = Idle /\ keeper' = Booting
      /\ drift' = drift \cup Wrote
      /\ UNCHANGED <<db, disk, served, requests>>
  BY DEF AgentRestarts, Wrote
<1>2. keeper' \in KeeperType /\ keeper'.pc = "list"
  BY <1>1, NginxAssumption, RowsOf DEF Booting, Asleep, KeeperType
<1>3. Wrote \subseteq Sites
  BY DEF TypeOK, Wrote, OpType, Busy, Idle
<1>4. TypeOK'
  BY <1>1, <1>2, <1>3, NginxAssumption DEF TypeOK
<1>5. ~Busy' /\ Wrote' = {}
  BY <1>1 DEF Busy, Idle, Wrote
<1>6. Undisturbed' = Undisturbed
  BY <1>1, <1>5 DEF Undisturbed
<1>7. OpOK' /\ HttpOK' /\ HttpsOK'
  BY <1>5 DEF OpOK, HttpOK, HttpsOK
<1>8. DiskOK'
  BY <1>1, <1>6 DEF DiskOK, Material
<1>9. KeeperOK'
  BY <1>2, <1>5 DEF KeeperOK
<1>10. ServesCommitted'
  BY <1>1, <1>5 DEF ServesCommitted, Wrote
<1> QED BY <1>4, <1>7, <1>8, <1>9, <1>10

LEMMA NextInv == IInv /\ [Next]_vars => IInv'
<1> SUFFICES ASSUME IInv, [Next]_vars PROVE IInv'
  OBVIOUS
<1>1. ASSUME NEW r \in Requests, Receive(r) PROVE IInv'
  BY <1>1, ReceiveInv
<1>2. CASE Statement
  BY <1>2, StatementInv
<1>3. CASE ChangeFile
  BY <1>3, ChangeFileInv
<1>4. CASE Reload
  BY <1>4, ReloadInv
<1>5. CASE Commit
  BY <1>5, CommitInv
<1>6. CASE Fails
  BY <1>6, FailsInv
<1>7. CASE KeeperWakes
  BY <1>7, KeeperWakesInv
<1>8. CASE KeeperLists
  BY <1>8, KeeperListsInv
<1>9. CASE KeeperWrites
  BY <1>9, KeeperWritesInv
<1>10. CASE KeeperReloads
  BY <1>10, KeeperReloadsInv
<1>11. CASE KeeperFails
  BY <1>11, KeeperFailsInv
<1>12. CASE AgentRestarts
  BY <1>12, AgentRestartsInv
<1>13. CASE UNCHANGED vars
  BY <1>13, StutterInv
<1> QED BY <1>1, <1>2, <1>3, <1>4, <1>5, <1>6, <1>7, <1>8, <1>9, <1>10, <1>11, <1>12, <1>13 DEF Next

LEMMA Invariant == Spec => []IInv
BY InitInv, NextInv, PTL DEF Spec

\* A site that is not adrift has loadable files, but while its handler makes
\* them unloadable itself.
LEMMA Loadable == IInv => RefusedFromDrift
<1> SUFFICES ASSUME IInv, NEW x \in Domains, Broken(disk, x), <<"https", x>> \notin drift
             PROVE  Doomed /\ op.req.site = <<"https", x>>
  BY DEF RefusedFromDrift
<1> USE DEF IInv
<1> DEFINE s == <<"https", x>>
<1>1. s \in Sites /\ IsHttps(s) /\ DomainOf(s) = x
  BY DEF Sites, Schemes, IsHttps, DomainOf
<1>2. disk.conf[x] # None /\ (disk.key[x] = None \/ disk.key[x] # disk.crt[x])
  BY DEF Broken
<1>3. s \notin Undisturbed
  <2> SUFFICES ASSUME s \in Undisturbed PROVE FALSE
    OBVIOUS
  <2>1. Loaded(disk)[s] = db[s] /\ Material(x, db[s])
    BY <1>1 DEF DiskOK
  <2>2. Loaded(disk)[s] = disk.conf[x]
    BY <1>1, LoadedSite DEF TypeOK, DomainOf
  <2> QED BY <1>2, <2>1, <2>2 DEF Material
<1>4. Busy /\ s \in op.wrote
  BY <1>1, <1>3 DEF Undisturbed, Wrote
<1>5. op.req.site = s /\ op.todo \notin SqlFirst /\ op.todo \notin Untouched /\ op.todo \in Left(op.req)
  BY <1>4 DEF OpOK
<1>6. op \in OpType
  BY <1>4 DEF TypeOK, Busy, Idle
<1>7. op.req.kind \in {"create", "update", "delete"} /\ op.req \in Requests
  BY <1>6, NginxAssumption DEF OpType, Request
<1>8. CASE op.req.kind = "create"
  <2>1. op.todo \in {Create3, Conf2} \cup FilesDone
    BY <1>1, <1>5, <1>8 DEF Left, SqlFirst, Untouched, FilesDone
  <2>2. op.todo \notin {Create3, Conf2}
    BY <1>1, <1>2, <1>4, <1>5, <1>8 DEF HttpsOK
  <2>3. disk.key[x] = op.req.key /\ disk.crt[x] = op.req.crt
    BY <1>1, <1>4, <1>5, <1>8, <2>1, <2>2 DEF HttpsOK
  <2>4. op.req.key # None
    BY <1>7, NginxAssumption DEF Request
  <2> QED BY <1>1, <1>2, <1>4, <1>5, <1>8, <2>3, <2>4 DEF Doomed
<1>9. CASE op.req.kind = "update"
  <2>1. Material(x, db[s])
    BY <1>1, <1>4, <1>5, <1>9 DEF HttpsOK
  <2>2. db[s] = None
    BY <1>2, <2>1 DEF Material
  <2>3. op.tx[s] = None
    BY <1>1, <1>4, <1>5, <1>7, <1>9, <2>2, ExecutedRow DEF OpOK, TypeOK
  <2> QED BY <1>1, <1>4, <1>5, <1>9, <2>3 DEF Doomed
<1>10. CASE op.req.kind = "delete"
  <2>1. op.todo \in {Delete3, Delete2} \cup FilesDone
    BY <1>1, <1>5, <1>10 DEF Left, SqlFirst, Untouched, FilesDone
  <2> QED BY <1>1, <1>2, <1>4, <1>5, <1>10, <2>1 DEF HttpsOK
<1> QED BY <1>7, <1>8, <1>9, <1>10

\* Every variable has its type, for any sets of sites, requests and crashes.
THEOREM TypeCorrect == Spec => []TypeOK
BY Invariant, PTL DEF IInv

\* A site that is not adrift and that no handler is working on is served as
\* the committed table has it (dnshandler.go:1115-1179).
THEOREM ServedCorrect == Spec => []ServesCommitted
BY Invariant, PTL DEF IInv

\* nginx can load what it finds at any moment, unless a request about an https
\* site left that site broken or is just doing so (nameddata_handler.go:227-275).
THEOREM LoadableCorrect == Spec => []RefusedFromDrift
BY Invariant, Loadable, PTL

-----------------------------------------------------------------------------
(* The handlers implement Rollout.                                         *)

\* What is in force of a site not adrift is what is committed.
LEMMA Agreed ==
  ASSUME IInv
  PROVE  InForce \in [Sites -> Urls \cup {None}] /\ \A s \in Sites \ drift : InForce[s] = db[s]
<1>1. db \in Db /\ served \in Db
  BY DEF IInv, TypeOK
<1>2. ASSUME NEW s \in Sites \ drift PROVE InForce[s] = db[s]
  BY DEF IInv, ServesCommitted, InForce
<1> QED BY <1>1, <1>2 DEF InForce, Db

LEMMA InitRefines == Init => Promise!Init
<1> SUFFICES ASSUME Init PROVE Promise!Init
  OBVIOUS
<1>1. IInv /\ drift = {}
  BY InitInv DEF Init
<1> QED BY <1>1, Agreed DEF Promise!Init, Promise!Agree, IInv, TypeOK, Db

LEMMA StepRefines == ASSUME IInv, IInv', [Next]_vars PROVE [Promise!Next]_(Promise!vars)
<1> USE DEF Promise!Agree
<1>1. /\ \A s \in Sites \ drift : InForce[s] = db[s]
      /\ \A s \in Sites \ drift' : InForce'[s] = db'[s]
  <2>1. \A s \in Sites \ drift : InForce[s] = db[s]
    BY Agreed
  <2>2. (IInv => \A s \in Sites \ drift : InForce[s] = db[s])'
    BY Agreed, PTL
  <2> QED BY <2>1, <2>2
<1>2. ASSUME UNCHANGED <<db, drift>> PROVE Promise!Wander
  BY <1>1, <1>2 DEF Promise!Wander
<1>3. \A S \in SUBSET Sites : db' = db /\ drift' = drift \cup S => Promise!Next
  <2> SUFFICES ASSUME NEW S \in SUBSET Sites, db' = db, drift' = drift \cup S PROVE Promise!Next
    OBVIOUS
  <2>1. Promise!Abandon(S)
    BY <1>1 DEF Promise!Abandon
  <2> QED BY <2>1 DEF Promise!Next
<1>4. ASSUME db' = db, drift' \subseteq drift PROVE Promise!Repair
  BY <1>1, <1>4 DEF Promise!Repair
<1>5. HttpSites \subseteq Sites
  BY DEF HttpSites, Sites, Schemes
<1>6. Busy => op \in OpType /\ op.req \in Requests /\ op.req.site \in Sites /\ op.wrote \subseteq Sites
  <2>1. Busy => op \in OpType
    BY DEF IInv, TypeOK, Busy, Idle
  <2> QED BY <2>1, NginxAssumption DEF OpType, Request
<1>7. CASE (\E r \in Requests : Receive(r)) \/ Statement \/ ChangeFile \/ Reload \/ KeeperWakes
           \/ KeeperLists \/ KeeperWrites \/ UNCHANGED vars
  <2>1. UNCHANGED <<db, drift>>
    BY <1>7 DEF Receive, Statement, ChangeFile, Reload, KeeperWakes, KeeperLists, KeeperWrites,
                KeeperAt, bounds, vars
  <2> QED BY <1>2, <2>1 DEF Promise!Next
<1>8. CASE Commit
  <2>1. Busy /\ op.todo = <<>> /\ db' = op.tx /\ drift' = (drift \ Settled) \cup Unsure
    BY <1>8 DEF Commit
  <2>2. op.req.site \in Sites /\ \A t \in Sites : t # op.req.site => op.tx[t] = db[t]
    BY <2>1, Finished
  <2>3. drift' \subseteq drift \cup {op.req.site}
    BY <2>1 DEF Unsure
  <2>4. \A s \in Sites : s = op.req.site => Promise!Next
    <3> SUFFICES ASSUME NEW s \in Sites, s = op.req.site PROVE Promise!Next
      OBVIOUS
    <3>1. \A i \in Sites \ {s} : db'[i] = db[i]
      BY <2>1, <2>2
    <3>2. Promise!Apply({s})
      BY <1>1, <2>3, <3>1 DEF Promise!Apply
    <3> QED BY <3>2 DEF Promise!Next
  <2> QED BY <2>2, <2>4
<1>9. CASE Fails
  <2>1. Busy /\ db' = db
    BY <1>9 DEF Fails
  <2>2. \/ drift' = drift \cup op.wrote
        \/ drift' = drift \cup HttpSites
        \/ drift' = drift \cup {op.req.site}
    BY <1>9 DEF Fails
  <2>3. op.wrote \in SUBSET Sites /\ HttpSites \in SUBSET Sites /\ {op.req.site} \in SUBSET Sites
    BY <1>5, <1>6, <2>1
  <2> QED BY <1>3, <2>1, <2>2, <2>3
<1>10. CASE KeeperReloads
  <2>1. db' = db /\ drift' \subseteq drift
    BY <1>10 DEF KeeperReloads, KeeperAt
  <2> QED BY <1>4, <2>1 DEF Promise!Next
<1>11. CASE KeeperFails
  <2>1. db' = db /\ (drift' = drift \/ drift' = drift \cup HttpSites)
    BY <1>11 DEF KeeperFails
  <2> QED BY <1>2, <1>3, <1>5, <2>1 DEF Promise!Next
<1>12. CASE AgentRestarts
  <2>1. db' = db /\ (drift' = drift \/ (Busy /\ drift' = drift \cup op.wrote))
    BY <1>12 DEF AgentRestarts
  <2>2. Busy => op.wrote \in SUBSET Sites
    BY <1>6
  <2>3. CASE drift' = drift
    BY <1>2, <2>1, <2>3 DEF Promise!Next
  <2>4. CASE Busy /\ drift' = drift \cup op.wrote
    BY <1>3, <2>1, <2>2, <2>4
  <2> QED BY <2>1, <2>3, <2>4
<1> QED BY <1>7, <1>8, <1>9, <1>10, <1>11, <1>12 DEF Next

\* Requests, the keeper and crashes keep what Rollout promises: a request takes
\* effect on its site alone and as a whole, and one that fails changes no table
\* and touches no site but those it leaves adrift (dnshandler.go:1115-1179).
THEOREM RolloutImplemented == Spec => ImplementsRollout
<1>1. Init => Promise!Init
  BY InitRefines
<1>2. IInv /\ IInv' /\ [Next]_vars => [Promise!Next]_(Promise!vars)
  BY StepRefines
<1> QED BY <1>1, <1>2, Invariant, PTL DEF Spec, ImplementsRollout, Promise!Spec
=============================================================================

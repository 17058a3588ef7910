-------------------------- MODULE DnsViews_proofs --------------------------
(***************************************************************************)
(* What named runs with, for any number of views, access lists,            *)
(* redirections and requests.                                              *)
(*                                                                         *)
(* It rests on the order of the calls a handler makes.  Proper says what   *)
(* that order is: it holds of Calls(r) for every request r, and of what is *)
(* left of it after any number of calls (TailProper).  Ahead, Shows and    *)
(* Loads say how far a handler that works alone has got: with its tables,  *)
(* with the files and with named.  Progress says it of the keeper.  When   *)
(* handler and keeper work at the same time nothing is promised, until the *)
(* next start by a keeper that is alone.                                   *)
(***************************************************************************)
EXTENDS DnsViews, SequenceTheorems, TLAPS

-----------------------------------------------------------------------------
(* The inductive invariant.                                                *)

\* The files some calls are about.
About(t) == UNION {t[i].files : i \in 1 .. Len(t)}

\* The files of each call.
Subject(c) ==
    CASE c.do = "acl" -> c.files = {AclFile}
      [] c.do = "options" -> c.files = {OptionsFile}
      [] c.do \in {"view", "noRPZ"} -> c.files = {ViewFile}
      [] c.do \in {"remove", "removeAll", "rules"} -> c.files \subseteq RuleFiles
      [] OTHER -> c.files = {}

\* Requests that never write the view file.
NoView == {"createAcl", "updateAcl", "deleteAcl", "options", "ttl"}

\* A call among those before and after it: the statement comes first and a
\* reconfiguration last; what takes the rpz zones out of the views brings them
\* back; what removes a file writes it, unless the view is deleted; no call is
\* about a file written before; the rules of an rpz zone are written when named
\* does not have it; and named reads only when the view file has been written.
InPlace(t, i) ==
    Subject(t[i]) /\ (t[i].do = "sql" => i = 1) /\ (i = Len(t) => t[i].do = "reconfig")

BringsBack(t, i) ==
    t[i].do = "noRPZ" =>
        /\ i + 3 <= Len(t)
        /\ t[i + 1].do = "reconfig" /\ t[i + 2].do = "rules" /\ t[i + 3].do = "view"

RemovesFirst(r, t, i) ==
    /\ t[i].do \in {"remove", "removeAll"} =>
        \/ r.kind = "deleteView" /\ \A f \in t[i].files : f[2] = r.view
        \/ i + 1 <= Len(t) /\ t[i + 1] = Call("rules", t[i].files)
        \/ /\ i + 3 <= Len(t)
           /\ t[i + 1].do = "noRPZ" /\ t[i + 2].do = "reconfig" /\ t[i + 3] = Call("rules", t[i].files)
    /\ t[i].do = "remove" => r.kind # "ttl"

Once(r, t, i) ==
    t[i].do = "rules" \/ (t[i].do \in {"remove", "removeAll"} /\ r.kind = "deleteView") =>
        \A j \in i + 1 .. Len(t) : t[i].files \cap t[j].files = {}

Unloaded(r, t, i) ==
    t[i].do = "rules" /\ i >= 2 =>
        \/ r.kind = "ttl" /\ t[i - 1] = Call("removeAll", t[i].files)
        \/ /\ r.kind # "ttl"
           /\ \/ /\ \A f \in t[i].files : f[1] = "rpz"
                 /\ t[i - 1].do = "reconfig"
                 /\ i >= 3 => t[i - 2].do = "noRPZ"
              \/ /\ \A f \in t[i].files : f[1] = "redirect"
                 /\ t[i - 1].do = "remove"

ReadsViews(r, t, i) ==
    t[i].do = "reconfig" /\ i >= 2 => r.kind \in NoView \/ t[i - 1].do \in {"view", "noRPZ"}

Fits(r, t, i) ==
    /\ InPlace(t, i) /\ BringsBack(t, i) /\ RemovesFirst(r, t, i)
    /\ Once(r, t, i) /\ Unloaded(r, t, i) /\ ReadsViews(r, t, i)

Proper(r, t) == \A i \in 1 .. Len(t) : Fits(r, t, i)

\* The files that are settled show the tables.
DiskOK ==
    /\ AclFile \notin Unsettled => disk.acls = db.acls
    /\ OptionsFile \notin Unsettled => disk.options = db.options
    /\ ViewFile \notin Unsettled =>
        disk.views = db.views /\ disk.forwards = db.forwards /\ disk.refs = Refs(db)
    /\ \A f \in RuleFiles \ Unsettled :
        disk.rules[f] = RuleFile(db, f) \/ (f \notin Refs(db) /\ f \notin disk.refs)

\* So does named, which may not have loaded all of it.
RunOK ==
    /\ RunsAsCommitted
    /\ up => \A f \in RuleFiles \ Unsettled : run.rules[f] \in {Absent, RuleFile(db, f)}

\* The calls ahead of a handler that has been alone since it began.
Ahead ==
    /\ Proper(op.req, op.todo)
    /\ op.wrote \cup About(op.todo) = About(Calls(op.req))
    /\ IF op.todo = Calls(op.req)
       THEN op.tx = db /\ op.wrote = {} /\ op.stale = {}
       ELSE /\ Calls(op.req) # <<>>
            /\ op.tx = Executed(op.req, db)
            /\ \A i \in 1 .. Len(op.todo) : op.todo[i].do # "sql"
            /\ \A f \in Refs(op.tx) \ Refs(db) :
                f \in op.wrote \/ (op.todo # <<>> /\ f \in Step.files)
    /\ \A f \in RuleFiles \cap op.wrote \cap About(op.todo) :
        \/ Step.do = "rules" /\ f \in Step.files
        \/ /\ Step.do = "reconfig" /\ Len(op.todo) >= 2
           /\ op.todo[2].do = "rules" /\ f \in op.todo[2].files
        \/ /\ Step.do = "noRPZ" /\ Len(op.todo) >= 3
           /\ op.todo[2].do = "reconfig" /\ op.todo[3].do = "rules" /\ f \in op.todo[3].files
    /\ op.todo # <<>> /\ Step.do = "reconfig" => op.req.kind \in NoView \/ ViewFile \in op.wrote

\* What it has written shows what it is to commit.
Shows ==
    /\ AclFile \in op.wrote => disk.acls = op.tx.acls
    /\ OptionsFile \in op.wrote => disk.options = op.tx.options
    /\ ViewFile \in op.wrote => disk.refs \subseteq Refs(op.tx)
    /\ ViewFile \in op.wrote \ About(op.todo) =>
        disk.views = op.tx.views /\ disk.forwards = op.tx.forwards /\ disk.refs = Refs(op.tx)
    /\ \A f \in (RuleFiles \cap op.wrote) \ About(op.todo) :
        disk.rules[f] = RuleFile(op.tx, f) \/ (f \notin Refs(op.tx) /\ op.req.kind # "ttl")

NoRpz(refs) == \A f \in refs : f[1] # "rpz"

\* What named has made of it so far.
Loads ==
    /\ up => \A f \in (RuleFiles \cap op.wrote) \ (About(op.todo) \cup op.stale) :
        run.rules[f] \in {Absent, RuleFile(op.tx, f)} \/ (f \notin Refs(op.tx) /\ op.req.kind # "ttl")
    /\ op.todo # <<>> /\ Step.do = "rules" =>
        IF op.req.kind = "ttl"
        THEN \A f \in Step.files : disk.rules[f] = Absent
        ELSE (\E f \in Step.files : f[1] = "rpz") =>
                NoRpz(disk.refs) /\ (up => \A f \in RuleFiles : f[1] = "rpz" => run.rules[f] = Absent)
    /\ Len(op.todo) >= 2 /\ Step.do = "reconfig" /\ op.todo[2].do = "rules" /\ op.req.kind # "ttl" =>
        NoRpz(disk.refs)
    /\ op.todo = <<>> /\ Calls(op.req) # <<>> =>
        /\ Defined(disk)
        /\ up => /\ run.acls = disk.acls /\ run.options = disk.options
                 /\ run.views = disk.views /\ run.forwards = disk.forwards
                 /\ \A f \in RuleFiles :
                     IF f \in disk.refs THEN run.rules[f] = Absent => disk.rules[f] = Absent
                     ELSE run.rules[f] = Absent

HandlerOK == Busy /\ op.run = "alone" => keeper.pc = "sleep" /\ Ahead /\ Shows /\ Loads

Awake == keeper.pc \notin {"sleep", "exited"}

\* What the keeper, alone, has written by now.
Progress ==
    /\ keeper.pc \in {"view", "acl", "rpz", "redirect", "start"} => disk.options = db.options
    /\ keeper.pc \in {"acl", "rpz", "redirect", "start"} =>
        disk.views = db.views /\ disk.forwards = db.forwards /\ disk.refs = Refs(db)
    /\ keeper.pc \in {"rpz", "redirect", "start"} => disk.acls = db.acls
    /\ \A f \in RuleFiles :
        (f[1] = "rpz" /\ keeper.pc \in {"redirect", "start"}) \/ keeper.pc = "start" =>
            disk.rules[f] = RuleFile(db, f)

KeeperOK ==
    /\ keeper.by = "boot" => ~Busy
    /\ Busy /\ op.run = "together" => drift = Parts
    /\ Awake /\ keeper.run = "together" => drift = Parts
    /\ Awake /\ keeper.run = "alone" => ~Busy /\ Progress

IInv == TypeOK /\ DiskOK /\ RunOK /\ HandlerOK /\ KeeperOK
-----------------------------------------------------------------------------
(* The calls of the requests.                                              *)

Calling == [do : Dos, files : SUBSET Parts]

\* The calls, one by one: those of most requests, and of those about redirections.
LikeShort(c, t) ==
    Len(t) = 3 /\ t[1] = Call("sql", {}) /\ t[2] = c /\ t[3] = Call("reconfig", {})

LikeDelete(v, t) ==
    /\ Len(t) = 5 /\ t[1] = Call("sql", {})
    /\ t[2] = Call("remove", {<<"rpz", v>>}) /\ t[3] = Call("remove", {<<"redirect", v>>})
    /\ t[4] = Call("view", {ViewFile}) /\ t[5] = Call("reconfig", {})

LikeTtl(R, S, t) ==
    /\ Len(t) = 9 /\ t[1] = Call("sql", {}) /\ t[2] = Call("zones", {})
    /\ t[3] = Call("removeAll", R) /\ t[4] = Call("rules", R)
    /\ t[5] = Call("removeAll", S) /\ t[6] = Call("rules", S)
    /\ t[7] = Call("reconfig", {}) /\ t[8] = Call("options", {OptionsFile}) /\ t[9] = Call("reconfig", {})

LEMMA ShapeDelete == ASSUME NEW v PROVE LikeDelete(v, DeleteView(v))
  BY DEF LikeDelete, DeleteView, RewriteView, Sql, Reconfig

LEMMA ShapeTtl == LikeTtl({"rpz"} \X Views, {"redirect"} \X Views, UpdateTtl)
  BY DEF LikeTtl, UpdateTtl, UpdateAllRRTtl, InitRules, RewriteOptions, Sql, Reconfig

OtherType(type) == CHOOSE t \in Types : t # type

LEMMA OtherTypes == OtherType("rpz") = "redirect" /\ OtherType("redirect") = "rpz"
  BY DEF OtherType, Types

LikeRpz(R, S, changed, t) ==
    /\ Len(t) = IF changed THEN 11 ELSE 7
    /\ t[1] = Call("sql", {}) /\ t[2] = Call("remove", R)
    /\ t[3] = Call("noRPZ", {ViewFile}) /\ t[4] = Call("reconfig", {})
    /\ t[5] = Call("rules", R) /\ t[6] = Call("view", {ViewFile}) /\ t[7] = Call("reconfig", {})
    /\ changed => /\ t[8] = Call("remove", S) /\ t[9] = Call("rules", S)
                  /\ t[10] = Call("view", {ViewFile}) /\ t[11] = Call("reconfig", {})

LikeRedirect(R, S, changed, t) ==
    /\ Len(t) = IF changed THEN 11 ELSE 5
    /\ t[1] = Call("sql", {}) /\ t[2] = Call("remove", S)
    /\ t[3] = Call("rules", S) /\ t[4] = Call("view", {ViewFile}) /\ t[5] = Call("reconfig", {})
    /\ changed => /\ t[6] = Call("remove", R)
                  /\ t[7] = Call("noRPZ", {ViewFile}) /\ t[8] = Call("reconfig", {})
                  /\ t[9] = Call("rules", R) /\ t[10] = Call("view", {ViewFile})
                  /\ t[11] = Call("reconfig", {})

\* rewriteOneRPZFile and rewriteOneRedirectFile, one by one.
RpzCalls(v) ==
    <<Call("remove", {<<"rpz", v>>})>> \o RewriteViewNoRPZ \o <<Call("rules", {<<"rpz", v>>})>> \o RewriteView

RedirectCalls(v) ==
    <<Call("remove", {<<"redirect", v>>}), Call("rules", {<<"redirect", v>>})>> \o RewriteView

LEMMA OneByOne ==
    ASSUME NEW v
    PROVE  RewriteOne("rpz", v) = RpzCalls(v) /\ RewriteOne("redirect", v) = RedirectCalls(v)
  BY DEF RewriteOne, RpzCalls, RedirectCalls

LEMMA ShapeRpz ==
    ASSUME NEW v, NEW changed \in BOOLEAN
    PROVE  LikeRpz({<<"rpz", v>>}, {<<"redirect", v>>}, changed, Sql \o RewriteRules(v, "rpz", changed))
<1> DEFINE Shape(t) == LikeRpz({<<"rpz", v>>}, {<<"redirect", v>>}, changed, t)
<1>1. CASE changed
  <2>1. RewriteRules(v, "rpz", changed) = RpzCalls(v) \o RedirectCalls(v)
    BY <1>1, OtherTypes, OneByOne DEF RewriteRules, OtherType
  <2>2. Shape(Sql \o (RpzCalls(v) \o RedirectCalls(v)))
    BY <1>1 DEF LikeRpz, LikeRedirect, RpzCalls, RedirectCalls, RewriteView, RewriteViewNoRPZ, Sql, Reconfig
  <2>q. QED  BY <2>1, <2>2
<1>2. CASE ~changed
  <2>1. RewriteRules(v, "rpz", changed) = RpzCalls(v) \o <<>>
    BY <1>2, OneByOne DEF RewriteRules
  <2>2. Shape(Sql \o (RpzCalls(v) \o <<>>))
    BY <1>2 DEF LikeRpz, LikeRedirect, RpzCalls, RedirectCalls, RewriteView, RewriteViewNoRPZ, Sql, Reconfig
  <2>q. QED  BY <2>1, <2>2
<1>q. QED  BY <1>1, <1>2

LEMMA ShapeRedirect ==
    ASSUME NEW v, NEW changed \in BOOLEAN
    PROVE  LikeRedirect({<<"rpz", v>>}, {<<"redirect", v>>}, changed, Sql \o RewriteRules(v, "redirect", changed))
<1> DEFINE Shape(t) == LikeRedirect({<<"rpz", v>>}, {<<"redirect", v>>}, changed, t)
<1>1. CASE changed
  <2>1. RewriteRules(v, "redirect", changed) = RedirectCalls(v) \o RpzCalls(v)
    BY <1>1, OtherTypes, OneByOne DEF RewriteRules, OtherType
  <2>2. Shape(Sql \o (RedirectCalls(v) \o RpzCalls(v)))
    BY <1>1 DEF LikeRpz, LikeRedirect, RpzCalls, RedirectCalls, RewriteView, RewriteViewNoRPZ, Sql, Reconfig
  <2>q. QED  BY <2>1, <2>2
<1>2. CASE ~changed
  <2>1. RewriteRules(v, "redirect", changed) = RedirectCalls(v) \o <<>>
    BY <1>2, OneByOne DEF RewriteRules
  <2>2. Shape(Sql \o (RedirectCalls(v) \o <<>>))
    BY <1>2 DEF LikeRpz, LikeRedirect, RpzCalls, RedirectCalls, RewriteView, RewriteViewNoRPZ, Sql, Reconfig
  <2>q. QED  BY <2>1, <2>2
<1>q. QED  BY <1>1, <1>2

LEMMA Requested ==
    ASSUME NEW r \in Requests
    PROVE  RequestOK(r)
  BY ViewsAssumption

LEMMA TypeOfOne ==
    ASSUME NEW v, NEW rows \in RuleOf(v)
    PROVE  \E row \in Rule : row.view = v /\ rows = {row} /\ TypeIn(rows) = row.type
  BY DEF RuleOf, TypeIn

LEMMA NotRules == AclFile \notin RuleFiles /\ OptionsFile \notin RuleFiles /\ ViewFile \notin RuleFiles
<1>1. \A f \in RuleFiles : \E a, b : f = <<a, b>>
  BY DEF RuleFiles
<1>2. \A a, b, c : <<c>> # <<a, b>>
  OBVIOUS
<1>q. QED  BY <1>1, <1>2 DEF AclFile, OptionsFile, ViewFile

\* What the calls of a request look like, by its kind.
Shaped(r, t) ==
    \/ r.kind \in {"createAcl", "updateAcl", "deleteAcl"} /\ LikeShort(Call("acl", {AclFile}), t)
    \/ /\ r.kind \in {"createView", "updateView", "createForward", "updateForward", "deleteForward", "flush"}
       /\ LikeShort(Call("view", {ViewFile}), t)
    \/ r.kind = "flush" /\ r.gone \cup r.rows = {} /\ t = <<>>
    \/ r.kind = "deleteView" /\ LikeDelete(r.view, t)
    \/ r.kind = "options" /\ LikeShort(Call("options", {OptionsFile}), t)
    \/ r.kind = "ttl" /\ LikeTtl({"rpz"} \X Views, {"redirect"} \X Views, t)
    \/ \E changed \in BOOLEAN :
        LET R == {<<"rpz", r.view>>}  S == {<<"redirect", r.view>>} IN
        /\ r.kind \in {"createRule", "updateRule", "deleteRule"}
        /\ \/ /\ r.kind = "deleteRule" /\ TypeIn(r.gone) = "rpz" /\ ~changed
              /\ LikeRpz(R, S, changed, t)
           \/ /\ r.kind = "deleteRule" /\ TypeIn(r.gone) = "redirect" /\ ~changed
              /\ LikeRedirect(R, S, changed, t)
           \/ /\ r.kind # "deleteRule" /\ TypeIn(r.rows) = "rpz"
              /\ changed = (r.kind = "updateRule" /\ TypeIn(r.gone) # "rpz")
              /\ LikeRpz(R, S, changed, t)
           \/ /\ r.kind # "deleteRule" /\ TypeIn(r.rows) = "redirect"
              /\ changed = (r.kind = "updateRule" /\ TypeIn(r.gone) # "redirect")
              /\ LikeRedirect(R, S, changed, t)

LEMMA CallsShaped ==
    ASSUME NEW r \in Requests
    PROVE  Shaped(r, Calls(r))
<1> USE Requested
<1>1. CASE r.kind \in {"createAcl", "updateAcl", "deleteAcl"}
  <2>1. LikeShort(Call("acl", {AclFile}), Sql \o RewriteAcl)
    BY DEF LikeShort, RewriteAcl, Sql, Reconfig
  <2>q. QED  BY <1>1, <2>1 DEF Calls, Shaped
<1>v. LikeShort(Call("view", {ViewFile}), Sql \o RewriteView)
  BY DEF LikeShort, RewriteView, Sql, Reconfig
<1>2. CASE r.kind \in {"createView", "updateView", "createForward", "updateForward", "deleteForward"}
  BY <1>2, <1>v DEF Calls, Shaped
<1>3. CASE r.kind = "flush"
  BY <1>3, <1>v DEF Calls, Shaped, FlushForwardZone
<1>4. CASE r.kind = "deleteView"
  BY <1>4, ShapeDelete DEF Calls, Shaped
<1>5. CASE r.kind = "options"
  <2>1. LikeShort(Call("options", {OptionsFile}), Sql \o RewriteOptions)
    BY DEF LikeShort, RewriteOptions, Sql, Reconfig
  <2>q. QED  BY <1>5, <2>1 DEF Calls, Shaped
<1>6. CASE r.kind = "ttl"
  BY <1>6, ShapeTtl DEF Calls, Shaped
<1>7. CASE r.kind = "createRule"
  <2>1. Calls(r) = Sql \o RewriteRules(r.view, TypeIn(r.rows), FALSE)
    BY <1>7 DEF Calls, CreateRedirection
  <2>2. TypeIn(r.rows) \in {"rpz", "redirect"}
    BY <1>7, TypeOfOne DEF RequestOK, Rule, Types
  <2>q. QED  BY <1>7, <2>1, <2>2, ShapeRpz, ShapeRedirect DEF Shaped
<1>8. CASE r.kind = "updateRule"
  <2>1. Calls(r) = Sql \o RewriteRules(r.view, TypeIn(r.rows), TypeIn(r.gone) # TypeIn(r.rows))
    BY <1>8 DEF Calls, UpdateRedirection
  <2>2. TypeIn(r.rows) \in {"rpz", "redirect"}
    BY <1>8, TypeOfOne DEF RequestOK, Rule, Types
  <2>q. QED  BY <1>8, <2>1, <2>2, ShapeRpz, ShapeRedirect DEF Shaped
<1>9. CASE r.kind = "deleteRule"
  <2>1. Calls(r) = Sql \o RewriteRules(r.view, TypeIn(r.gone), FALSE)
    BY <1>9 DEF Calls, DeleteRedirection
  <2>2. TypeIn(r.gone) \in {"rpz", "redirect"}
    BY <1>9, TypeOfOne DEF RequestOK, Rule, Types
  <2>q. QED  BY <1>9, <2>1, <2>2, ShapeRpz, ShapeRedirect DEF Shaped
<1>q. QED  BY <1>1, <1>2, <1>3, <1>4, <1>5, <1>6, <1>7, <1>8, <1>9 DEF RequestOK, Kinds

LEMMA CallsType ==
    ASSUME NEW r \in Requests
    PROVE  Calls(r) \in Seq(Calling)
<1> USE DEF Calling, Parts, RuleFiles, Types, Dos, Call
<1>1. Sql \in Seq(Calling) /\ Reconfig \in Seq(Calling)
  BY DEF Sql, Reconfig
<1>2. RewriteAcl \in Seq(Calling) /\ RewriteOptions \in Seq(Calling) /\ RewriteView \in Seq(Calling)
      /\ RewriteViewNoRPZ \in Seq(Calling)
  BY <1>1 DEF RewriteAcl, RewriteOptions, RewriteView, RewriteViewNoRPZ
<1>3. r.view \in Views
  BY Requested DEF RequestOK
<1>4. RpzCalls(r.view) \in Seq(Calling) /\ RedirectCalls(r.view) \in Seq(Calling)
  BY <1>2, <1>3 DEF RpzCalls, RedirectCalls
<1> HIDE DEF Calling, Parts, RuleFiles, Types, Dos, Call
<1>5. ASSUME NEW changed
      PROVE  /\ RewriteRules(r.view, "rpz", changed) \in Seq(Calling)
             /\ RewriteRules(r.view, "redirect", changed) \in Seq(Calling)
  <2>1. RewriteRules(r.view, "rpz", changed) =
            RpzCalls(r.view) \o (IF changed THEN RedirectCalls(r.view) ELSE <<>>)
    BY OneByOne, OtherTypes DEF RewriteRules, OtherType
  <2>2. RewriteRules(r.view, "redirect", changed) =
            RedirectCalls(r.view) \o (IF changed THEN RpzCalls(r.view) ELSE <<>>)
    BY OneByOne, OtherTypes DEF RewriteRules, OtherType
  <2>3. CASE changed
    <3>1. /\ RewriteRules(r.view, "rpz", changed) = RpzCalls(r.view) \o RedirectCalls(r.view)
          /\ RewriteRules(r.view, "redirect", changed) = RedirectCalls(r.view) \o RpzCalls(r.view)
      BY <2>3, <2>1, <2>2
    <3>q. QED  BY <3>1, <1>4, ConcatProperties
  <2>4. CASE ~changed
    <3>1. /\ RewriteRules(r.view, "rpz", changed) = RpzCalls(r.view) \o <<>>
          /\ RewriteRules(r.view, "redirect", changed) = RedirectCalls(r.view) \o <<>>
      BY <2>4, <2>1, <2>2
    <3>q. QED  BY <3>1, <1>4
  <2>q. QED  BY <2>3, <2>4
<1> USE DEF Calling, Parts, RuleFiles, Types, Dos, Call
<1>6. DeleteView(r.view) \in Seq(Calling)
  BY <1>1, <1>2, <1>3 DEF DeleteView
<1>7. UpdateTtl \in Seq(Calling)
  <2>1. InitRules("rpz") \in Seq(Calling) /\ InitRules("redirect") \in Seq(Calling)
    BY DEF InitRules
  <2>2. UpdateAllRRTtl \in Seq(Calling)
    BY DEF UpdateAllRRTtl
  <2>q. QED  BY <1>1, <1>2, <2>1, <2>2 DEF UpdateTtl
<1> HIDE DEF Calling, Parts, RuleFiles, Types, Dos, Call
<1>8. FlushForwardZone(r.gone, r.rows) \in Seq(Calling)
  BY <1>1, <1>2 DEF FlushForwardZone
<1>9. CASE r.kind \in {"createRule", "updateRule"}
  <2>0. \E changed : Calls(r) = Sql \o RewriteRules(r.view, TypeIn(r.rows), changed)
    <3>1. CASE r.kind = "createRule"
      <4>1. Calls(r) = Sql \o RewriteRules(r.view, TypeIn(r.rows), FALSE)
        BY <3>1 DEF Calls, CreateRedirection
      <4>q. QED  BY <4>1
    <3>2. CASE r.kind = "updateRule"
      <4>1. Calls(r) = Sql \o RewriteRules(r.view, TypeIn(r.rows), TypeIn(r.gone) # TypeIn(r.rows))
        BY <3>2 DEF Calls, UpdateRedirection
      <4>q. QED  BY <4>1
    <3>q. QED  BY <1>9, <3>1, <3>2
  <2>1. TypeIn(r.rows) \in {"rpz", "redirect"}
    BY <1>9, Requested, TypeOfOne DEF RequestOK, Rule, Types
  <2>2. \A changed : RewriteRules(r.view, TypeIn(r.rows), changed) \in Seq(Calling)
    BY <2>1, <1>5
  <2>q. QED  BY <2>0, <2>2, <1>1, ConcatProperties
<1>10. CASE r.kind = "deleteRule"
  <2>0. Calls(r) = Sql \o RewriteRules(r.view, TypeIn(r.gone), FALSE)
    BY <1>10 DEF Calls, DeleteRedirection
  <2>1. TypeIn(r.gone) \in {"rpz", "redirect"}
    BY <1>10, Requested, TypeOfOne DEF RequestOK, Rule, Types
  <2>2. \A changed : RewriteRules(r.view, TypeIn(r.gone), changed) \in Seq(Calling)
    BY <2>1, <1>5
  <2>q. QED  BY <2>0, <2>2, <1>1, ConcatProperties
<1>11. CASE r.kind \notin {"createRule", "updateRule", "deleteRule"}
  BY <1>11, <1>1, <1>2, <1>6, <1>7, <1>8, Requested DEF Calls, RequestOK, Kinds
<1>q. QED  BY <1>9, <1>10, <1>11

LEMMA ShortProper ==
    ASSUME NEW r \in Requests, NEW t \in Seq(Calling), NEW c \in Calling, LikeShort(c, t), Subject(c),
           \/ c.do \in {"acl", "options"} /\ r.kind \in NoView
           \/ c.do = "view"
    PROVE  Proper(r, t)
<1> SUFFICES ASSUME NEW i \in 1 .. Len(t) PROVE Fits(r, t, i)
  BY DEF Proper
<1>1. i \in {1, 2, 3}
  BY DEF LikeShort
<1>q. QED  BY <1>1 DEF Fits, InPlace, BringsBack, RemovesFirst, Once, Unloaded, ReadsViews, LikeShort, Call, Subject

LEMMA DeleteProper ==
    ASSUME NEW r \in Requests, NEW t \in Seq(Calling), LikeDelete(r.view, t), r.kind = "deleteView"
    PROVE  Proper(r, t)
<1> SUFFICES ASSUME NEW i \in 1 .. Len(t) PROVE Fits(r, t, i)
  BY DEF Proper
<1>1. i \in 1 .. 5
  BY DEF LikeDelete
<1>2. r.view \in Views
  BY Requested DEF RequestOK
<1>q. QED  BY <1>1, <1>2 DEF Fits, InPlace, BringsBack, RemovesFirst, Once, Unloaded, ReadsViews, LikeDelete, Call, Subject, RuleFiles, Types, ViewFile

Apart(R, S) ==
    /\ R \in SUBSET RuleFiles /\ \A f \in R : f[1] = "rpz"
    /\ S \in SUBSET RuleFiles /\ \A f \in S : f[1] = "redirect"

LEMMA TtlProper ==
    ASSUME NEW r \in Requests, NEW t \in Seq(Calling), NEW R, NEW S, Apart(R, S),
           LikeTtl(R, S, t), r.kind = "ttl"
    PROVE  Proper(r, t)
<1> SUFFICES ASSUME NEW i \in 1 .. Len(t) PROVE Fits(r, t, i)
  BY DEF Proper
<1>1. i \in 1 .. 9
  BY DEF LikeTtl
<1>2. R \cap S = {} /\ R \cap {OptionsFile} = {} /\ S \cap {OptionsFile} = {}
  BY DEF Apart, RuleFiles, OptionsFile
<1>3. CASE i = 1
  BY <1>3, <1>1, <1>2 DEF Fits, InPlace, BringsBack, RemovesFirst, Once, Unloaded, ReadsViews, LikeTtl, Call, Subject, Apart, NoView
<1>4. CASE i = 2
  BY <1>4, <1>1, <1>2 DEF Fits, InPlace, BringsBack, RemovesFirst, Once, Unloaded, ReadsViews, LikeTtl, Call, Subject, Apart, NoView
<1>5. CASE i = 3
  BY <1>5, <1>1, <1>2 DEF Fits, InPlace, BringsBack, RemovesFirst, Once, Unloaded, ReadsViews, LikeTtl, Call, Subject, Apart, NoView
<1>6. CASE i = 4
  BY <1>6, <1>1, <1>2 DEF Fits, InPlace, BringsBack, RemovesFirst, Once, Unloaded, ReadsViews, LikeTtl, Call, Subject, Apart, NoView
<1>7. CASE i = 5
  BY <1>7, <1>1, <1>2 DEF Fits, InPlace, BringsBack, RemovesFirst, Once, Unloaded, ReadsViews, LikeTtl, Call, Subject, Apart, NoView
<1>8. CASE i = 6
  BY <1>8, <1>1, <1>2 DEF Fits, InPlace, BringsBack, RemovesFirst, Once, Unloaded, ReadsViews, LikeTtl, Call, Subject, Apart, NoView
<1>9. CASE i = 7
  BY <1>9, <1>1, <1>2 DEF Fits, InPlace, BringsBack, RemovesFirst, Once, Unloaded, ReadsViews, LikeTtl, Call, Subject, Apart, NoView
<1>10. CASE i = 8
  BY <1>10, <1>1, <1>2 DEF Fits, InPlace, BringsBack, RemovesFirst, Once, Unloaded, ReadsViews, LikeTtl, Call, Subject, Apart, NoView
<1>11. CASE i = 9
  BY <1>11, <1>1, <1>2 DEF Fits, InPlace, BringsBack, RemovesFirst, Once, Unloaded, ReadsViews, LikeTtl, Call, Subject, Apart, NoView
<1>q. QED  BY <1>1, <1>3, <1>4, <1>5, <1>6, <1>7, <1>8, <1>9, <1>10, <1>11

LEMMA RpzProper ==
    ASSUME NEW r \in Requests, NEW t \in Seq(Calling), NEW changed \in BOOLEAN, NEW R, NEW S, Apart(R, S),
           LikeRpz(R, S, changed, t), r.kind \in {"createRule", "updateRule", "deleteRule"}
    PROVE  Proper(r, t)
<1> SUFFICES ASSUME NEW i \in 1 .. Len(t) PROVE Fits(r, t, i)
  BY DEF Proper
<1>1. i \in 1 .. 11 /\ (~changed => i \in 1 .. 7)
  BY DEF LikeRpz
<1>2. R \cap S = {} /\ R \cap {ViewFile} = {} /\ S \cap {ViewFile} = {}
  BY DEF Apart, RuleFiles, ViewFile
<1>3. CASE i = 1
  BY <1>3, <1>1, <1>2 DEF Fits, InPlace, BringsBack, RemovesFirst, Once, Unloaded, ReadsViews, LikeRpz, Call, Subject, Apart
<1>4. CASE i = 2
  BY <1>4, <1>1, <1>2 DEF Fits, InPlace, BringsBack, RemovesFirst, Once, Unloaded, ReadsViews, LikeRpz, Call, Subject, Apart
<1>5. CASE i = 3
  BY <1>5, <1>1, <1>2 DEF Fits, InPlace, BringsBack, RemovesFirst, Once, Unloaded, ReadsViews, LikeRpz, Call, Subject, Apart
<1>6. CASE i = 4
  BY <1>6, <1>1, <1>2 DEF Fits, InPlace, BringsBack, RemovesFirst, Once, Unloaded, ReadsViews, LikeRpz, Call, Subject, Apart
<1>7. CASE i = 5
  <2>1. ASSUME NEW j \in 6 .. Len(t)
        PROVE  t[j].files = S \/ t[j].files = {ViewFile} \/ t[j].files = {}
    <3>1. j \in {6, 7} \/ (changed /\ j \in {8, 9, 10, 11})
      BY DEF LikeRpz
    <3>q. QED  BY <3>1 DEF LikeRpz, Call
  <2>2. t[i].do = "rules" /\ t[i].files = R /\ i # Len(t)
    BY <1>7 DEF LikeRpz, Call
  <2>3. Once(r, t, i)
    BY <1>7, <1>2, <2>1, <2>2 DEF Once
  <2>q. QED
    BY <1>7, <1>1, <2>2, <2>3
    DEF Fits, InPlace, BringsBack, RemovesFirst, Unloaded, ReadsViews, LikeRpz, Call, Subject, Apart
<1>8. CASE i = 6
  BY <1>8, <1>1, <1>2 DEF Fits, InPlace, BringsBack, RemovesFirst, Once, Unloaded, ReadsViews, LikeRpz, Call, Subject, Apart
<1>9. CASE i = 7
  BY <1>9, <1>1, <1>2 DEF Fits, InPlace, BringsBack, RemovesFirst, Once, Unloaded, ReadsViews, LikeRpz, Call, Subject, Apart
<1>10. CASE i = 8
  BY <1>10, <1>1, <1>2 DEF Fits, InPlace, BringsBack, RemovesFirst, Once, Unloaded, ReadsViews, LikeRpz, Call, Subject, Apart
<1>11. CASE i = 9
  BY <1>11, <1>1, <1>2 DEF Fits, InPlace, BringsBack, RemovesFirst, Once, Unloaded, ReadsViews, LikeRpz, Call, Subject, Apart
<1>12. CASE i = 10
  BY <1>12, <1>1, <1>2 DEF Fits, InPlace, BringsBack, RemovesFirst, Once, Unloaded, ReadsViews, LikeRpz, Call, Subject, Apart
<1>13. CASE i = 11
  BY <1>13, <1>1, <1>2 DEF Fits, InPlace, BringsBack, RemovesFirst, Once, Unloaded, ReadsViews, LikeRpz, Call, Subject, Apart
<1>q. QED  BY <1>1, <1>3, <1>4, <1>5, <1>6, <1>7, <1>8, <1>9, <1>10, <1>11, <1>12, <1>13

LEMMA RedirectProper ==
    ASSUME NEW r \in Requests, NEW t \in Seq(Calling), NEW changed \in BOOLEAN, NEW R, NEW S, Apart(R, S),
           LikeRedirect(R, S, changed, t), r.kind \in {"createRule", "updateRule", "deleteRule"}
    PROVE  Proper(r, t)
<1> SUFFICES ASSUME NEW i \in 1 .. Len(t) PROVE Fits(r, t, i)
  BY DEF Proper
<1>1. i \in 1 .. 11 /\ (~changed => i \in 1 .. 5)
  BY DEF LikeRedirect
<1>2. R \cap S = {} /\ R \cap {ViewFile} = {} /\ S \cap {ViewFile} = {}
  BY DEF Apart, RuleFiles, ViewFile
<1>3. CASE i = 1
  BY <1>3, <1>1, <1>2 DEF Fits, InPlace, BringsBack, RemovesFirst, Once, Unloaded, ReadsViews, LikeRedirect, Call, Subject, Apart
<1>4. CASE i = 2
  BY <1>4, <1>1, <1>2 DEF Fits, InPlace, BringsBack, RemovesFirst, Once, Unloaded, ReadsViews, LikeRedirect, Call, Subject, Apart
<1>5. CASE i = 3
  <2>1. ASSUME NEW j \in 4 .. Len(t)
        PROVE  t[j].files = R \/ t[j].files = {ViewFile} \/ t[j].files = {}
    <3>1. j \in {4, 5} \/ (changed /\ j \in {6, 7, 8, 9, 10, 11})
      BY DEF LikeRedirect
    <3>q. QED  BY SMTT(30), <3>1 DEF LikeRedirect, Call
  <2>2. t[i].do = "rules" /\ t[i].files = S /\ i # Len(t)
    BY <1>5 DEF LikeRedirect, Call
  <2>3. Once(r, t, i)
    BY <1>5, <1>2, <2>1, <2>2 DEF Once
  <2>q. QED
    BY <1>5, <1>1, <2>2, <2>3
    DEF Fits, InPlace, BringsBack, RemovesFirst, Unloaded, ReadsViews, LikeRedirect, Call, Subject, Apart
<1>6. CASE i = 4
  BY <1>6, <1>1, <1>2 DEF Fits, InPlace, BringsBack, RemovesFirst, Once, Unloaded, ReadsViews, LikeRedirect, Call, Subject, Apart
<1>7. CASE i = 5
  BY <1>7, <1>1, <1>2 DEF Fits, InPlace, BringsBack, RemovesFirst, Once, Unloaded, ReadsViews, LikeRedirect, Call, Subject, Apart
<1>8. CASE i = 6
  BY <1>8, <1>1, <1>2 DEF Fits, InPlace, BringsBack, RemovesFirst, Once, Unloaded, ReadsViews, LikeRedirect, Call, Subject, Apart
<1>9. CASE i = 7
  BY <1>9, <1>1, <1>2 DEF Fits, InPlace, BringsBack, RemovesFirst, Once, Unloaded, ReadsViews, LikeRedirect, Call, Subject, Apart
<1>10. CASE i = 8
  BY <1>10, <1>1, <1>2 DEF Fits, InPlace, BringsBack, RemovesFirst, Once, Unloaded, ReadsViews, LikeRedirect, Call, Subject, Apart
<1>11. CASE i = 9
  BY <1>11, <1>1, <1>2 DEF Fits, InPlace, BringsBack, RemovesFirst, Once, Unloaded, ReadsViews, LikeRedirect, Call, Subject, Apart
<1>12. CASE i = 10
  BY <1>12, <1>1, <1>2 DEF Fits, InPlace, BringsBack, RemovesFirst, Once, Unloaded, ReadsViews, LikeRedirect, Call, Subject, Apart
<1>13. CASE i = 11
  BY <1>13, <1>1, <1>2 DEF Fits, InPlace, BringsBack, RemovesFirst, Once, Unloaded, ReadsViews, LikeRedirect, Call, Subject, Apart
<1>q. QED  BY <1>1, <1>3, <1>4, <1>5, <1>6, <1>7, <1>8, <1>9, <1>10, <1>11, <1>12, <1>13

LEMMA ShapedProper ==
    ASSUME NEW r \in Requests, NEW t \in Seq(Calling), Shaped(r, t)
    PROVE  Proper(r, t)
<1> DEFINE R == {<<"rpz", r.view>>}
           S == {<<"redirect", r.view>>}
<1>2. Apart(R, S) /\ Apart({"rpz"} \X Views, {"redirect"} \X Views)
  BY Requested DEF Apart, RequestOK, RuleFiles, Types
<1>3. \A c \in {Call("acl", {AclFile}), Call("view", {ViewFile}), Call("options", {OptionsFile})} :
        c \in Calling /\ Subject(c)
  BY DEF Call, Calling, Dos, Parts, Subject
<1>4. Proper(r, <<>>)
  BY DEF Proper
<1> HIDE DEF R, S
<1>5. CASE \E c \in {Call("acl", {AclFile}), Call("options", {OptionsFile})} :
            r.kind \in NoView /\ LikeShort(c, t)
  <2>1. PICK c \in {Call("acl", {AclFile}), Call("options", {OptionsFile})} :
            r.kind \in NoView /\ LikeShort(c, t)
    BY <1>5
  <2>2. c.do \in {"acl", "options"}
    BY <2>1 DEF Call
  <2>q. QED  BY <1>3, <2>1, <2>2, ShortProper
<1>6. CASE LikeShort(Call("view", {ViewFile}), t)
  <2>1. Call("view", {ViewFile}).do = "view"
    BY DEF Call
  <2>q. QED  BY <1>3, <1>6, <2>1, ShortProper
<1>7. CASE t = <<>>
  BY <1>4, <1>7
<1>8. CASE r.kind = "deleteView" /\ LikeDelete(r.view, t)
  BY <1>8, DeleteProper
<1>9. CASE r.kind = "ttl" /\ LikeTtl({"rpz"} \X Views, {"redirect"} \X Views, t)
  BY <1>2, <1>9, TtlProper
<1>10. CASE /\ r.kind \in {"createRule", "updateRule", "deleteRule"}
            /\ \E changed \in BOOLEAN : LikeRpz(R, S, changed, t) \/ LikeRedirect(R, S, changed, t)
  BY <1>2, <1>10, RpzProper, RedirectProper
<1>q. QED  BY <1>5, <1>6, <1>7, <1>8, <1>9, <1>10 DEF Shaped, NoView, R, S

LEMMA CallsProper ==
    ASSUME NEW r \in Requests
    PROVE  Proper(r, Calls(r))
  BY CallsType, CallsShaped, ShapedProper

LEMMA AboutMember ==
    ASSUME NEW t, NEW i \in 1 .. Len(t), NEW f \in t[i].files
    PROVE  f \in About(t)
  BY DEF About

LEMMA AboutTail ==
    ASSUME NEW t \in Seq(Calling), t # <<>>
    PROVE  /\ Tail(t) \in Seq(Calling) /\ Len(Tail(t)) = Len(t) - 1
           /\ Head(t) = t[1] /\ Head(t) \in Calling
           /\ \A i \in 1 .. Len(Tail(t)) : Tail(t)[i] = t[i + 1]
           /\ About(t) = Head(t).files \cup About(Tail(t))
           /\ Tail(t) # t
<1>1. /\ Tail(t) \in Seq(Calling) /\ Len(Tail(t)) = Len(t) - 1
      /\ Head(t) = t[1] /\ Head(t) \in Calling
      /\ \A i \in 1 .. Len(Tail(t)) : Tail(t)[i] = t[i + 1]
      /\ Len(t) \in Nat \ {0}
  OBVIOUS
<1>2. \A i \in 2 .. Len(t) : i - 1 \in 1 .. Len(Tail(t)) /\ Tail(t)[i - 1] = t[i]
  BY <1>1
<1>3. \A i \in 1 .. Len(Tail(t)) : i + 1 \in 1 .. Len(t)
  BY <1>1
<1>4. 1 \in 1 .. Len(t) /\ \A i \in 1 .. Len(t) : i = 1 \/ i \in 2 .. Len(t)
  BY <1>1
<1>5. About(t) \subseteq Head(t).files \cup About(Tail(t))
  <2> SUFFICES ASSUME NEW f \in About(t)
               PROVE  f \in Head(t).files \cup About(Tail(t))
    OBVIOUS
  <2>1. PICK i \in 1 .. Len(t) : f \in t[i].files
    BY DEF About
  <2>2. CASE i = 1
    BY <1>1, <2>1, <2>2
  <2>3. CASE i \in 2 .. Len(t)
    BY <1>2, <2>1, <2>3, AboutMember
  <2>q. QED  BY <1>4, <2>2, <2>3
<1>6. Head(t).files \cup About(Tail(t)) \subseteq About(t)
  BY <1>1, <1>3, <1>4 DEF About
<1>7. Tail(t) # t
  <2>1. Len(Tail(t)) = Len(t) - 1 /\ Len(t) \in Nat
    BY <1>1
  <2> HIDE <1>1
  <2>2. \A m, n \in Nat : m = n - 1 => m # n
    OBVIOUS
  <2>3. Len(Tail(t)) \in Nat
    BY <1>1
  <2>q. QED  BY <2>1, <2>2, <2>3
<1>8. About(t) = Head(t).files \cup About(Tail(t))
  BY <1>5, <1>6
<1>q. QED  BY <1>1, <1>7, <1>8

LEMMA TailProper ==
    ASSUME NEW r, NEW t \in Seq(Calling), t # <<>>, Proper(r, t)
    PROVE  Proper(r, Tail(t)) /\ \A i \in 1 .. Len(Tail(t)) : Tail(t)[i].do # "sql"
<1> DEFINE s == Tail(t)
<1>1. Len(t) \in Nat \ {0} /\ Len(s) = Len(t) - 1 /\ \A i \in 1 .. Len(s) : s[i] = t[i + 1]
  BY AboutTail
<1> HIDE DEF s
<1>2. ASSUME NEW i \in 1 .. Len(s)
      PROVE  Fits(r, s, i) /\ s[i].do # "sql"
  <2>1. i + 1 \in 1 .. Len(t) /\ s[i] = t[i + 1] /\ i \in Nat /\ i >= 1
    BY <1>1
  <2>2. Fits(r, t, i + 1)
    BY <2>1 DEF Proper
  <2>3. InPlace(s, i) /\ s[i].do # "sql"
    BY <1>1, <2>1, <2>2 DEF Fits, InPlace
  <2>4. BringsBack(s, i)
    BY <1>1, <2>1, <2>2 DEF Fits, BringsBack
  <2>5. RemovesFirst(r, s, i)
    BY <1>1, <2>1, <2>2 DEF Fits, RemovesFirst
  <2>6. Once(r, s, i)
    <3>1. \A j \in i + 1 .. Len(s) : j + 1 \in (i + 1) + 1 .. Len(t) /\ s[j] = t[j + 1]
      BY <1>1, <2>1
    <3>q. QED  BY <2>1, <2>2, <3>1 DEF Fits, Once
  <2>7. Unloaded(r, s, i)
    <3>1. i >= 2 => s[i - 1] = t[(i + 1) - 1]
      BY <1>1, <2>1
    <3>2. i >= 3 => s[i - 2] = t[(i + 1) - 2]
      BY <1>1, <2>1
    <3>q. QED  BY <2>1, <2>2, <3>1, <3>2 DEF Fits, Unloaded
  <2>8. ReadsViews(r, s, i)
    <3>1. i >= 2 => s[i - 1] = t[(i + 1) - 1] /\ i + 1 >= 2
      BY <1>1, <2>1
    <3>q. QED  BY <2>1, <2>2, <3>1 DEF Fits, ReadsViews
  <2>q. QED  BY <2>3, <2>4, <2>5, <2>6, <2>7, <2>8 DEF Fits
<1>q. QED  BY <1>2 DEF Proper, s

\* What the calls of a request are about, by what it is to change in the tables.
LEMMA AboutShaped ==
    ASSUME NEW r \in Requests, NEW t \in Seq(Calling), Shaped(r, t)
    PROVE  /\ t = <<>> => r.kind = "flush" /\ r.gone \cup r.rows = {}
           /\ t # <<>> => Len(t) > 2 /\ t[1] = Call("sql", {})
           /\ r.kind \in {"createAcl", "updateAcl", "deleteAcl"} => AclFile \in About(t)
           /\ r.kind \in {"options", "ttl"} => OptionsFile \in About(t)
           /\ r.kind \notin NoView /\ t # <<>> => ViewFile \in About(t)
           /\ r.kind \in NoView => ViewFile \notin About(t)
           /\ r.kind \in NoView \ {"ttl"} => RuleFiles \cap About(t) = {}
           /\ r.kind = "ttl" => RuleFiles \subseteq About(t)
           /\ r.kind = "deleteView" => \A f \in RuleFiles : f[2] = r.view => f \in About(t)
           /\ r.kind \in {"createRule", "updateRule"} => \A row \in r.rows : FileOf(row) \in t[2].files
           /\ r.kind \in {"createRule", "updateRule", "deleteRule"} =>
                \A row \in r.gone \cup r.rows : FileOf(row) \in About(t)
<1>r. RequestOK(r)
  BY Requested
<1>1. \A i \in 1 .. Len(t) : \A f \in t[i].files : f \in About(t)
  BY AboutMember
<1>2. CASE t = <<>>
  <2>1. r.kind = "flush" /\ r.gone \cup r.rows = {}
    BY <1>2 DEF Shaped, LikeShort, LikeDelete, LikeTtl, LikeRpz, LikeRedirect
  <2>q. QED  BY <1>2, <2>1 DEF NoView
<1>3. ASSUME NEW c \in Calling, LikeShort(c, t)
      PROVE  /\ Len(t) = 3 /\ t[1] = Call("sql", {})
             /\ About(t) = c.files
  <2>1. Len(t) = 3 /\ t[1] = Call("sql", {})
    BY <1>3 DEF LikeShort
  <2>2. 2 \in 1 .. Len(t) /\ t[2] = c /\ t[1].files = {} /\ t[3].files = {}
    BY <1>3 DEF LikeShort, Call
  <2>3. \A i \in 1 .. Len(t) : i \in {1, 2, 3}
    BY <2>1
  <2>4. About(t) \subseteq c.files
    BY <2>2, <2>3 DEF About
  <2>q. QED  BY <1>1, <2>1, <2>2, <2>4
<1>4. CASE r.kind \in {"createAcl", "updateAcl", "deleteAcl"}
  <2>1. LikeShort(Call("acl", {AclFile}), t) /\ Call("acl", {AclFile}) \in Calling
    BY <1>4 DEF Shaped, Call, Calling, Dos, Parts
  <2>2. Len(t) = 3 /\ t[1] = Call("sql", {}) /\ About(t) = {AclFile}
    BY <1>3, <2>1 DEF Call
  <2>q. QED  BY SMTT(30), <1>4, <2>2 DEF NoView, AclFile, ViewFile, RuleFiles
<1>5. CASE r.kind = "options"
  <2>1. LikeShort(Call("options", {OptionsFile}), t) /\ Call("options", {OptionsFile}) \in Calling
    BY <1>5 DEF Shaped, Call, Calling, Dos, Parts
  <2>2. Len(t) = 3 /\ t[1] = Call("sql", {}) /\ About(t) = {OptionsFile}
    BY <1>3, <2>1 DEF Call
  <2>3. OptionsFile # ViewFile /\ OptionsFile \notin RuleFiles
    BY DEF OptionsFile, ViewFile, RuleFiles
  <2>4. Len(t) > 2 /\ t # <<>> /\ RuleFiles \cap About(t) = {} /\ ViewFile \notin About(t)
    BY <2>2, <2>3
  <2>q. QED  BY <1>5, <2>2, <2>4 DEF NoView
<1>6. CASE r.kind \in {"createView", "updateView", "createForward", "updateForward", "deleteForward", "flush"}
           /\ t # <<>>
  <2>1. LikeShort(Call("view", {ViewFile}), t) /\ Call("view", {ViewFile}) \in Calling
    BY <1>6 DEF Shaped, Call, Calling, Dos, Parts
  <2>2. Len(t) = 3 /\ t[1] = Call("sql", {}) /\ About(t) = {ViewFile}
    BY <1>3, <2>1 DEF Call
  <2>q. QED  BY <1>6, <2>2 DEF NoView
<1>7. CASE r.kind = "deleteView"
  <2>1. LikeDelete(r.view, t)
    BY <1>7 DEF Shaped
  <2>2. Len(t) = 5 /\ t[1] = Call("sql", {}) /\ ViewFile \in About(t)
        /\ <<"rpz", r.view>> \in About(t) /\ <<"redirect", r.view>> \in About(t)
    BY <1>1, <2>1 DEF LikeDelete, Call
  <2>q. QED  BY <1>7, <2>2 DEF NoView, RuleFiles, Types
<1>8. CASE r.kind = "ttl"
  <2>1. LikeTtl({"rpz"} \X Views, {"redirect"} \X Views, t)
    BY <1>8 DEF Shaped
  <2>2. Len(t) = 9 /\ t[1] = Call("sql", {}) /\ OptionsFile \in About(t)
        /\ {"rpz"} \X Views \subseteq About(t) /\ {"redirect"} \X Views \subseteq About(t)
    BY <1>1, <2>1 DEF LikeTtl, Call
  <2>3. ViewFile \notin About(t)
    <3>1. ASSUME NEW i \in 1 .. Len(t)
          PROVE  ViewFile \notin t[i].files
      <4>1. i \in {1, 2, 3, 4, 5, 6, 7, 8, 9}
        BY <2>2
      <4>q. QED  BY <4>1, <2>1 DEF LikeTtl, Call, ViewFile, OptionsFile
    <3>q. QED  BY <3>1 DEF About
  <2>4. RuleFiles \subseteq About(t)
    BY <2>2 DEF RuleFiles, Types
  <2>5. Len(t) > 2 /\ t # <<>>
    BY <2>2
  <2>6. OptionsFile \in About(t) /\ t[1] = Call("sql", {})
    BY <2>2
  <2>q. QED  BY <1>8, <2>3, <2>4, <2>5, <2>6 DEF NoView
<1>9. CASE r.kind \in {"createRule", "updateRule", "deleteRule"}
  <2> DEFINE R == {<<"rpz", r.view>>}
             S == {<<"redirect", r.view>>}
  <2>1. PICK changed \in BOOLEAN :
            \/ /\ r.kind = "deleteRule" /\ TypeIn(r.gone) = "rpz" /\ LikeRpz(R, S, changed, t)
            \/ /\ r.kind = "deleteRule" /\ TypeIn(r.gone) = "redirect" /\ LikeRedirect(R, S, changed, t)
            \/ /\ r.kind # "deleteRule" /\ TypeIn(r.rows) = "rpz" /\ LikeRpz(R, S, changed, t)
               /\ changed = (r.kind = "updateRule" /\ TypeIn(r.gone) # "rpz")
            \/ /\ r.kind # "deleteRule" /\ TypeIn(r.rows) = "redirect" /\ LikeRedirect(R, S, changed, t)
               /\ changed = (r.kind = "updateRule" /\ TypeIn(r.gone) # "redirect")
    BY <1>9 DEF Shaped
  <2>2. ASSUME LikeRpz(R, S, changed, t)
        PROVE  /\ Len(t) > 2 /\ t[1] = Call("sql", {}) /\ ViewFile \in About(t)
               /\ t[2].files = R /\ R \subseteq About(t) /\ (changed => S \subseteq About(t))
    BY <1>1, <2>2 DEF LikeRpz, Call
  <2>3. ASSUME LikeRedirect(R, S, changed, t)
        PROVE  /\ Len(t) > 2 /\ t[1] = Call("sql", {}) /\ ViewFile \in About(t)
               /\ t[2].files = S /\ S \subseteq About(t) /\ (changed => R \subseteq About(t))
    BY <1>1, <2>3 DEF LikeRedirect, Call
  <2>4. r.kind # "deleteRule" =>
            \E row \in Rule : row.view = r.view /\ r.rows = {row} /\ TypeIn(r.rows) = row.type
    BY <1>9, <1>r, TypeOfOne DEF RequestOK
  <2>5. r.kind # "createRule" =>
            \E row \in Rule : row.view = r.view /\ r.gone = {row} /\ TypeIn(r.gone) = row.type
    BY <1>9, <1>r, TypeOfOne DEF RequestOK
  <2>6. r.kind = "createRule" => r.gone = {}
    BY <1>r DEF RequestOK
  <2>7. r.kind = "deleteRule" => r.rows = {}
    BY <1>r DEF RequestOK
  <2>8. \A row \in r.rows : FileOf(row) = <<TypeIn(r.rows), r.view>>
    BY <1>9, <2>4, <2>7 DEF FileOf
  <2>9. \A row \in r.gone : FileOf(row) = <<TypeIn(r.gone), r.view>> /\ TypeIn(r.gone) \in {"rpz", "redirect"}
    BY <1>9, <2>5, <2>6 DEF FileOf, Rule, Types
  <2>10. Len(t) > 2 /\ t[1] = Call("sql", {}) /\ ViewFile \in About(t)
    BY <2>1, <2>2, <2>3
  <2>11. r.kind # "deleteRule" => \A row \in r.rows : FileOf(row) \in t[2].files /\ FileOf(row) \in About(t)
    BY <2>1, <2>2, <2>3, <2>8
  <2>12. \A row \in r.gone : FileOf(row) \in About(t)
    BY <2>1, <2>2, <2>3, <2>6, <2>9, <1>9
  <2>q. QED  BY <1>9, <2>7, <2>10, <2>11, <2>12 DEF NoView
<1>q. QED  BY <1>r, <1>2, <1>4, <1>5, <1>6, <1>7, <1>8, <1>9 DEF RequestOK, Kinds

LEMMA AboutCalls ==
    ASSUME NEW r \in Requests
    PROVE  LET t == Calls(r) IN
           /\ t = <<>> => r.kind = "flush" /\ r.gone \cup r.rows = {}
           /\ t # <<>> => Len(t) > 2 /\ t[1] = Call("sql", {})
           /\ r.kind \in {"createAcl", "updateAcl", "deleteAcl"} => AclFile \in About(t)
           /\ r.kind \in {"options", "ttl"} => OptionsFile \in About(t)
           /\ r.kind \notin NoView /\ t # <<>> => ViewFile \in About(t)
           /\ r.kind \in NoView => ViewFile \notin About(t)
           /\ r.kind \in NoView \ {"ttl"} => RuleFiles \cap About(t) = {}
           /\ r.kind = "ttl" => RuleFiles \subseteq About(t)
           /\ r.kind = "deleteView" => \A f \in RuleFiles : f[2] = r.view => f \in About(t)
           /\ r.kind \in {"createRule", "updateRule"} => \A row \in r.rows : FileOf(row) \in t[2].files
           /\ r.kind \in {"createRule", "updateRule", "deleteRule"} =>
                \A row \in r.gone \cup r.rows : FileOf(row) \in About(t)
  BY CallsType, CallsShaped, AboutShaped

-----------------------------------------------------------------------------
(* What a request makes of the tables.                                     *)

\* Every table stays what it is, with its foreign keys.
LEMMA ExecutedType ==
    ASSUME NEW r \in Requests, NEW d \in Tables, Accepted(r, d)
    PROVE  Executed(r, d) \in Tables
<1> DEFINE e == Executed(r, d)
<1>r. RequestOK(r) /\ r.kind \in Kinds /\ r.view \in Views /\ r.acl \in Acls /\ r.value \in Values
  BY Requested DEF RequestOK
<1>d. /\ d \in [acls : SUBSET Acls, options : Values, views : SUBSET (Views \X Acls),
                forwards : SUBSET Forward, rules : SUBSET Rule]
      /\ \A row \in d.forwards \cup d.rules : row.view \in ViewsOf(d)
  BY DEF Tables
<1>1. CASE r.kind \in {"createAcl", "deleteAcl"}
  <2>1. e = [d EXCEPT !.acls = @ \cup {r.acl}] \/ e = [d EXCEPT !.acls = @ \ {r.acl}]
    BY <1>1 DEF Executed
  <2>q. QED  BY <1>r, <1>d, <2>1 DEF Tables, ViewsOf
<1>2. CASE r.kind = "createView"
  <2>1. e = [d EXCEPT !.views = @ \cup {<<r.view, r.acl>>}]
    BY <1>2 DEF Executed
  <2>q. QED  BY <1>r, <1>d, <2>1 DEF Tables, ViewsOf
<1>3. CASE r.kind = "updateView"
  <2> DEFINE V == {<<row[1], IF row[1] = r.view THEN r.acl ELSE row[2]>> : row \in d.views}
  <2>1. e = [d EXCEPT !.views = V]
    BY <1>3 DEF Executed
  <2>2. V \in SUBSET (Views \X Acls)
    BY <1>r, <1>d
  <2>3. ASSUME NEW row \in d.views
        PROVE  \E x \in V : x[1] = row[1]
    <3>1. <<row[1], IF row[1] = r.view THEN r.acl ELSE row[2]>> \in V
      OBVIOUS
    <3>q. QED  BY <3>1
  <2> HIDE DEF V
  <2>q. QED  BY <1>d, <2>1, <2>2, <2>3 DEF Tables, ViewsOf
<1>4. CASE r.kind = "deleteView"
  <2>1. e = [d EXCEPT !.views = {row \in @ : row[1] # r.view},
                      !.forwards = {row \in @ : row.view # r.view},
                      !.rules = {row \in @ : row.view # r.view}]
    BY <1>4 DEF Executed
  <2>2. /\ e.views = {row \in d.views : row[1] # r.view}
        /\ e.forwards = {row \in d.forwards : row.view # r.view}
        /\ e.rules = {row \in d.rules : row.view # r.view}
        /\ e \in [acls : SUBSET Acls, options : Values, views : SUBSET (Views \X Acls),
                  forwards : SUBSET Forward, rules : SUBSET Rule]
    BY ZenonT(30), <1>d, <2>1
  <2>3. ASSUME NEW row \in e.forwards \cup e.rules
        PROVE  row.view \in ViewsOf(e)
    <3>1. row \in d.forwards \cup d.rules /\ row.view # r.view
      BY <2>2
    <3>2. PICK x \in d.views : x[1] = row.view
      BY <1>d, <3>1 DEF ViewsOf
    <3>q. QED  BY <2>2, <3>1, <3>2 DEF ViewsOf
  <2> HIDE DEF e
  <2>4. e \in Tables
    BY <2>2, <2>3 DEF Tables
  <2>q. QED  BY <2>4 DEF e
<1>5. CASE r.kind = "deleteForward"
  <2>1. e = [d EXCEPT !.forwards = @ \ r.gone]
    BY <1>5 DEF Executed
  <2>q. QED  BY <1>d, <2>1 DEF Tables, ViewsOf
<1>6. CASE r.kind \in {"createForward", "flush"}
  <2>1. e = [d EXCEPT !.forwards = (@ \ Flushed(r, d)) \cup r.rows]
    BY <1>6 DEF Executed
  <2>2. r.rows \in SUBSET Forward /\ \A row \in r.rows : row.view \in ViewsOf(d)
    BY <1>6, <1>r DEF RequestOK, Accepted
  <2>q. QED  BY <1>d, <2>1, <2>2 DEF Tables, ViewsOf
<1>7. CASE r.kind = "createRule"
  <2>1. e = [d EXCEPT !.rules = @ \cup r.rows]
    BY <1>7 DEF Executed
  <2>2. r.rows \in SUBSET Rule /\ \A row \in r.rows : row.view \in ViewsOf(d)
    BY <1>7, <1>r DEF RequestOK, Accepted, RuleOf
  <2>q. QED  BY <1>d, <2>1, <2>2 DEF Tables, ViewsOf
<1>8. CASE r.kind = "updateRule"
  <2>1. CASE ~(KeysOf(r.gone) \subseteq KeysOf(d.rules))
    BY <1>8, <2>1 DEF Executed
  <2>2. CASE KeysOf(r.gone) \subseteq KeysOf(d.rules)
    <3>1. e = [d EXCEPT !.rules = {row \in @ : Key(row) \notin KeysOf(r.gone)} \cup r.rows]
      BY <1>8, <2>2 DEF Executed
    <3>2. r.rows \in SUBSET Rule /\ \A row \in r.rows : row.view = r.view
      BY <1>8, <1>r DEF RequestOK, RuleOf
    <3>3. PICK old \in Rule : r.gone = {old} /\ old.view = r.view
      BY <1>8, <1>r DEF RequestOK, RuleOf
    <3>4. PICK row \in d.rules : Key(row) = Key(old)
      BY <2>2, <3>3 DEF KeysOf
    <3>5. r.view \in ViewsOf(d)
      BY <1>d, <3>3, <3>4 DEF Key
    <3>q. QED  BY <1>d, <3>1, <3>2, <3>5 DEF Tables, ViewsOf
  <2>q. QED  BY <2>1, <2>2
<1>9. CASE r.kind = "deleteRule"
  <2>1. e = [d EXCEPT !.rules = {row \in @ : Key(row) \notin KeysOf(r.gone)}]
    BY <1>9 DEF Executed
  <2>q. QED  BY <1>d, <2>1 DEF Tables, ViewsOf
<1>10. CASE r.kind = "options"
  <2>1. e = [d EXCEPT !.options = r.value]
    BY <1>10 DEF Executed
  <2>q. QED  BY <1>r, <1>d, <2>1 DEF Tables, ViewsOf
<1>11. CASE r.kind = "ttl"
  <2> DEFINE T == {[row EXCEPT !.ttl = r.value] : row \in d.rules}
  <2>1. e = [d EXCEPT !.options = r.value, !.rules = T]
    BY <1>11 DEF Executed
  <2>2. T \in SUBSET Rule /\ \A row \in T : row.view \in ViewsOf(d)
    BY <1>r, <1>d DEF Rule
  <2> HIDE DEF T
  <2>q. QED  BY <1>r, <1>d, <2>1, <2>2 DEF Tables, ViewsOf
<1>12. CASE r.kind \in {"updateAcl", "updateForward"}
  BY <1>12 DEF Executed
<1>q. QED
  BY <1>r, <1>1, <1>2, <1>3, <1>4, <1>5, <1>6, <1>7, <1>8, <1>9, <1>10, <1>11, <1>12 DEF Kinds

\* The part of the tables each file shows changes only with a call about it.
LEMMA ExecutedElsewhere ==
    ASSUME NEW r \in Requests, NEW d \in Tables
    PROVE  LET e == Executed(r, d) IN
           /\ AclFile \notin About(Calls(r)) => e.acls = d.acls
           /\ OptionsFile \notin About(Calls(r)) => e.options = d.options
           /\ ViewFile \notin About(Calls(r)) => e.views = d.views /\ e.forwards = d.forwards
<1> DEFINE e == Executed(r, d)
           A == About(Calls(r))
<1>r. RequestOK(r) /\ r.kind \in Kinds
  BY Requested DEF RequestOK
<1>d. d \in [acls : SUBSET Acls, options : Values, views : SUBSET (Views \X Acls),
             forwards : SUBSET Forward, rules : SUBSET Rule]
  BY DEF Tables
<1>a. /\ r.kind \in {"createAcl", "updateAcl", "deleteAcl"} => AclFile \in A
      /\ r.kind \in {"options", "ttl"} => OptionsFile \in A
      /\ r.kind \notin NoView => ViewFile \in A \/ (r.kind = "flush" /\ r.gone \cup r.rows = {})
  BY AboutCalls
<1> HIDE DEF A
<1>1. e.acls = d.acls \/ r.kind \in {"createAcl", "deleteAcl"}
  BY <1>r, <1>d DEF Executed, Kinds
<1>2. e.options = d.options \/ r.kind \in {"options", "ttl"}
  BY <1>r, <1>d DEF Executed, Kinds
<1>3. r.kind \in NoView => e.views = d.views /\ e.forwards = d.forwards
  BY <1>r, <1>d DEF Executed, Kinds, NoView
<1>4. r.kind = "flush" /\ r.gone \cup r.rows = {} => e.views = d.views /\ e.forwards = d.forwards
  <2> SUFFICES ASSUME r.kind = "flush", r.gone \cup r.rows = {}
               PROVE  e.views = d.views /\ e.forwards = d.forwards
    OBVIOUS
  <2>1. Flushed(r, d) = {} /\ r.rows = {}
    BY DEF Flushed
  <2>2. e = [d EXCEPT !.forwards = (@ \ Flushed(r, d)) \cup r.rows]
    BY DEF Executed
  <2>q. QED  BY <1>d, <2>1, <2>2
<1>q. QED  BY <1>a, <1>1, <1>2, <1>3, <1>4 DEF A

\* So do the files of rules, but for those of redirections it was mistaken about.
LEMMA ExecutedRules ==
    ASSUME NEW r \in Requests, NEW d \in Tables
    PROVE  LET e == Executed(r, d) IN
           /\ \A f \in RuleFiles :
                f \notin About(Calls(r)) \cup Mistaken(r, d) => RuleFile(e, f) = RuleFile(d, f)
           /\ \A f \in Refs(e) \ Refs(d) : Calls(r) # <<>> /\ f \in Calls(r)[2].files
           /\ r.kind = "ttl" => Refs(e) = Refs(d)
           /\ r.kind = "deleteView" => \A f \in RuleFiles : f[2] = r.view => f \notin Refs(e)
<1> DEFINE e == Executed(r, d)
           A == About(Calls(r))
           Second == Calls(r)[2].files
<1>r. RequestOK(r) /\ r.kind \in Kinds
  BY Requested DEF RequestOK
<1>d. d \in [acls : SUBSET Acls, options : Values, views : SUBSET (Views \X Acls),
             forwards : SUBSET Forward, rules : SUBSET Rule]
  BY DEF Tables
<1>a. /\ r.kind = "ttl" => RuleFiles \subseteq A
      /\ r.kind = "deleteView" => \A f \in RuleFiles : f[2] = r.view => f \in A
      /\ r.kind \in {"createRule", "updateRule"} => \A row \in r.rows : FileOf(row) \in Second
      /\ r.kind \in {"createRule", "updateRule", "deleteRule"} =>
            Calls(r) # <<>> /\ \A row \in r.gone \cup r.rows : FileOf(row) \in A
  BY AboutCalls
<1>f. /\ \A x, f : RuleFile(x, f) = {<<row.name, row.ttl>> : row \in {y \in x.rules : FileOf(y) = f}}
      /\ \A x : Refs(x) = {f \in RuleFiles : RuleFile(x, f) # Absent}
  BY DEF RuleFile, Refs
<1>g. \A row \in Rule : FileOf(row) \in RuleFiles /\ FileOf(row)[2] = row.view
  BY DEF FileOf, RuleFiles, Rule
<1>n. \A x, f : RuleFile(x, f) # Absent <=> \E row \in x.rules : FileOf(row) = f
  BY DEF RuleFile, Absent
<1> HIDE DEF A, Second
<1>1. CASE e.rules = d.rules /\ r.kind # "ttl" /\ r.kind # "deleteView"
  <2>1. \A f : RuleFile(e, f) = RuleFile(d, f)
    BY <1>1 DEF RuleFile
  <2> HIDE DEF e
  <2>2. Refs(e) = Refs(d)
    BY <2>1 DEF Refs
  <2>q. QED  BY <1>1, <2>1, <2>2 DEF A, e
<1>2. CASE r.kind = "deleteView"
  <2>1. e.rules = {row \in d.rules : row.view # r.view}
    BY <1>2, <1>d DEF Executed
  <2> HIDE DEF e
  <2>2. \A row \in d.rules : row.view = FileOf(row)[2]
    BY DEF FileOf
  <2>3. \A f \in RuleFiles : f \notin A => RuleFile(e, f) = RuleFile(d, f)
    BY <1>2, <1>a, <2>1, <2>2 DEF RuleFile
  <2>4. \A f \in RuleFiles : f[2] = r.view => RuleFile(e, f) = Absent
    BY <1>n, <2>1, <2>2
  <2>5. Refs(e) \subseteq Refs(d)
    BY <1>n, <2>1 DEF Refs
  <2>q. QED  BY <1>2, <2>3, <2>4, <2>5 DEF A, e, Refs
<1>3. CASE r.kind = "ttl"
  <2>1. e.rules = {[row EXCEPT !.ttl = r.value] : row \in d.rules}
    BY <1>3, <1>d DEF Executed
  <2> HIDE DEF e
  <2>2. \A row \in d.rules : FileOf([row EXCEPT !.ttl = r.value]) = FileOf(row)
    BY <1>d DEF FileOf, Rule
  <2>3. ASSUME NEW f
        PROVE  (\E row \in e.rules : FileOf(row) = f) <=> (\E row \in d.rules : FileOf(row) = f)
    <3>1. ASSUME NEW row \in d.rules, FileOf(row) = f
          PROVE  \E x \in e.rules : FileOf(x) = f
      <4>1. [row EXCEPT !.ttl = r.value] \in e.rules /\ FileOf([row EXCEPT !.ttl = r.value]) = f
        BY <2>1, <2>2, <3>1
      <4>q. QED  BY <4>1
    <3>2. ASSUME NEW x \in e.rules, FileOf(x) = f
          PROVE  \E row \in d.rules : FileOf(row) = f
      BY <2>1, <2>2, <3>2
    <3>q. QED  BY <3>1, <3>2
  <2>4. Refs(e) = Refs(d)
    BY <1>n, <2>3 DEF Refs
  <2>q. QED  BY <1>3, <1>a, <2>4 DEF A, e
<1>4. CASE r.kind = "createRule"
  <2>1. e.rules = d.rules \cup r.rows
    BY <1>4, <1>d DEF Executed
  <2> HIDE DEF e
  <2>2. \A f : f \notin A => RuleFile(e, f) = RuleFile(d, f)
    BY <1>4, <1>a, <2>1 DEF RuleFile
  <2>3. \A f \in Refs(e) \ Refs(d) : f \in Second
    BY <1>4, <1>a, <1>n, <2>1 DEF Refs
  <2>q. QED  BY <1>4, <1>a, <2>2, <2>3 DEF A, Second, e
<1>5. CASE r.kind \in {"updateRule", "deleteRule"} /\ e.rules # d.rules
  <2>1. /\ e.rules = {row \in d.rules : Key(row) \notin KeysOf(r.gone)} \cup r.rows
        /\ r.kind = "deleteRule" => r.rows = {}
    BY <1>5, <1>d, <1>r DEF Executed, RequestOK
  <2>m. Mistaken(r, d) = {FileOf(row) : row \in {x \in d.rules : Key(x) \in KeysOf(r.gone)}}
                            \ {FileOf(row) : row \in r.gone \cup r.rows}
    BY <1>5 DEF Mistaken
  <2> HIDE DEF e
  <2>2. ASSUME NEW f, f \notin A \cup Mistaken(r, d)
        PROVE  RuleFile(e, f) = RuleFile(d, f)
    <3>1. \A row \in r.gone \cup r.rows : FileOf(row) # f
      BY <1>5, <1>a, <2>2
    <3>2. \A row \in d.rules : Key(row) \in KeysOf(r.gone) => FileOf(row) # f
      BY <2>2, <2>m, <3>1
    <3>3. {y \in e.rules : FileOf(y) = f} = {y \in d.rules : FileOf(y) = f}
      BY <2>1, <3>1, <3>2
    <3>q. QED  BY <3>3 DEF RuleFile
  <2>3. \A f \in Refs(e) \ Refs(d) : f \in Second
    BY <1>5, <1>a, <1>n, <2>1 DEF Refs
  <2>q. QED  BY <1>5, <1>a, <2>2, <2>3 DEF A, Second, e
<1>q. QED
  <2>1. r.kind \notin {"deleteView", "createRule", "updateRule", "deleteRule", "ttl"} => e.rules = d.rules
    BY <1>r, <1>d DEF Executed, Kinds
  <2>q. QED  BY <2>1, <1>1, <1>2, <1>3, <1>4, <1>5

-----------------------------------------------------------------------------
(* Types.                                                                  *)

LEMMA RuleFileType ==
    ASSUME NEW d \in Tables, NEW f
    PROVE  RuleFile(d, f) \in Content
  BY DEF RuleFile, Content, Tables, Rule

\* What is written, removed and read are files.
LEMMA FilesType ==
    ASSUME NEW d \in Tables, NEW files \in Files
    PROVE  /\ FilesOf(d) \in Files
           /\ WrittenAcl(d, files) \in Files /\ WrittenOptions(d, files) \in Files
           /\ \A refs \in SUBSET RuleFiles : WrittenView(d, refs, files) \in Files
           /\ \A F : WrittenRules(d, F, files) \in Files /\ RemovedRules(F, files) \in Files
<1>1. /\ d.acls \in SUBSET Acls /\ d.options \in Values /\ d.views \in SUBSET (Views \X Acls)
      /\ d.forwards \in SUBSET Forward
  BY DEF Tables
<1>2. \A f : RuleFile(d, f) \in Content
  BY RuleFileType
<1>3. Absent \in Content
  BY DEF Absent, Content
<1>4. FilesOf(d) \in Files
  BY <1>1, <1>2 DEF FilesOf, Files, Refs
<1>5. WrittenAcl(d, files) \in Files /\ WrittenOptions(d, files) \in Files
  BY <1>1 DEF WrittenAcl, WrittenOptions, Files
<1>6. \A refs \in SUBSET RuleFiles : WrittenView(d, refs, files) \in Files
  BY <1>1 DEF WrittenView, Files
<1>7. \A F : WrittenRules(d, F, files) \in Files
  BY <1>2 DEF WrittenRules, Files
<1>8. \A F : RemovedRules(F, files) \in Files
  BY <1>3 DEF RemovedRules, Files
<1>q. QED  BY <1>4, <1>5, <1>6, <1>7, <1>8

LEMMA ReadType ==
    ASSUME NEW files \in Files, NEW had \in [RuleFiles -> Content]
    PROVE  /\ Read(files, had) \in Files
           /\ Nothing \in [RuleFiles -> Content]
<1>1. Absent \in Content
  BY DEF Absent, Content
<1>q. QED  BY <1>1 DEF Read, Files, Nothing

LEMMA ShownType ==
    ASSUME NEW d \in Tables, NEW files \in Files, NEW do, NEW F
    PROVE  Shown(do, d, F, files) \in Files
<1>1. Refs(d) \in SUBSET RuleFiles /\ {f \in Refs(d) : f[1] # "rpz"} \in SUBSET RuleFiles
  BY DEF Refs
<1>q. QED  BY <1>1, FilesType DEF Shown

LEMMA BusyType ==
    ASSUME TypeOK
    PROVE  /\ Busy <=> op \in Operation
           /\ ~Busy <=> op = Idle
           /\ Busy => /\ op.req \in Requests /\ op.todo \in Seq(Calling) /\ op.tx \in Tables
                      /\ op.wrote \in SUBSET Parts /\ op.stale \in SUBSET Parts
                      /\ op.run \in {"alone", "together"}
           /\ Busy /\ op.todo # <<>> => /\ Step \in Calling /\ Step.files \in SUBSET Parts /\ Step.do \in Dos
                                        /\ Tail(op.todo) \in Seq(Calling)
<1>1. Busy <=> op \in Operation
  BY DEF TypeOK, Busy, Idle, Operation
<1>2. ~Busy <=> op = Idle
  BY DEF TypeOK, Busy, Idle, Operation
<1>3. Busy => /\ op.req \in Requests /\ op.todo \in Seq(Calling) /\ op.tx \in Tables
              /\ op.wrote \in SUBSET Parts /\ op.stale \in SUBSET Parts
              /\ op.run \in {"alone", "together"}
  BY <1>1 DEF Operation, Calling
<1>4. Busy /\ op.todo # <<>> => Step \in Calling /\ Tail(op.todo) \in Seq(Calling)
  BY <1>3, AboutTail DEF Step
<1>5. Busy /\ op.todo # <<>> => Step.files \in SUBSET Parts /\ Step.do \in Dos
  BY <1>4 DEF Calling
<1>q. QED  BY <1>1, <1>2, <1>3, <1>4, <1>5

LEMMA MistakenParts ==
    ASSUME NEW r, NEW d \in Tables
    PROVE  Mistaken(r, d) \in SUBSET Parts
  BY DEF Mistaken, Tables, Rule, FileOf, Parts, RuleFiles

LEMMA DefaultsType ==
    ASSUME NEW d \in Tables, NEW A \in SUBSET Acls, NEW V \in SUBSET (Views \X Acls)
    PROVE  [d EXCEPT !.acls = @ \cup A, !.views = @ \cup V] \in Tables
  BY DEF Tables, ViewsOf

LEMMA TypeInit == Init => TypeOK
<1> SUFFICES ASSUME Init PROVE TypeOK
  OBVIOUS
<1>1. InitialDb \in Tables /\ MaxRequests \in Nat /\ MaxCrashes \in Nat
  BY ViewsAssumption
<1>2. FilesOf(InitialDb) \in Files
  <2>1. \A f : RuleFile(InitialDb, f) \in Content
    BY <1>1, RuleFileType
  <2>q. QED  BY <1>1, <2>1 DEF FilesOf, Files, Refs, Tables
<1>3. op = Idle /\ keeper \in [pc : KeeperSteps, by : {"keeper", "boot"}, run : {"alone", "together"}]
  BY DEF Init, Booting, KeeperSteps
<1>q. QED  BY <1>1, <1>2, <1>3 DEF Init, TypeOK

\* What a start puts in, when it is missing.
LEMMA DefaultsPut ==
    ASSUME NEW d \in Tables
    PROVE  /\ WithDefaults(d)["acls"] \ d["acls"] = DefaultAcls \ d.acls
           /\ WithDefaults(d)["views"] \ d["views"] =
                IF DefaultView \in ViewsOf(d) THEN {} ELSE {<<DefaultView, AnyAcl>>}
           /\ DefaultAcls \ d.acls \in SUBSET Acls
           /\ {<<DefaultView, AnyAcl>>} \in SUBSET (Views \X Acls)
<1>1. DefaultAcls \subseteq Acls /\ AnyAcl \in DefaultAcls /\ DefaultView \in Views
  BY ViewsAssumption
<1>2. d \in [acls : SUBSET Acls, options : Values, views : SUBSET (Views \X Acls),
             forwards : SUBSET Forward, rules : SUBSET Rule]
  BY DEF Tables
<1>3. /\ WithDefaults(d).acls = d.acls \cup DefaultAcls
      /\ WithDefaults(d).views =
            IF DefaultView \in ViewsOf(d) THEN d.views ELSE d.views \cup {<<DefaultView, AnyAcl>>}
  BY <1>2 DEF WithDefaults
<1>4. DefaultView \notin ViewsOf(d) => <<DefaultView, AnyAcl>> \notin d.views
  BY DEF ViewsOf
<1>q. QED  BY <1>1, <1>3, <1>4

LEMMA TypeStep == TypeOK /\ [Next]_vars => TypeOK'
<1> SUFFICES ASSUME TypeOK, [Next]_vars PROVE TypeOK'
  OBVIOUS
<1>k. keeper \in [pc : KeeperSteps, by : {"keeper", "boot"}, run : {"alone", "together"}]
  BY DEF TypeOK
<1>b. MaxRequests \in Nat /\ MaxCrashes \in Nat
  BY ViewsAssumption
<1>o. Idle \in {Idle} /\ \A p \in KeeperSteps : \A w \in {"alone", "together"} :
        [keeper EXCEPT !.pc = p] \in [pc : KeeperSteps, by : {"keeper", "boot"}, run : {"alone", "together"}]
  BY <1>k
<1>p. Asleep \in [pc : KeeperSteps, by : {"keeper", "boot"}, run : {"alone", "together"}]
      /\ Booting \in [pc : KeeperSteps, by : {"keeper", "boot"}, run : {"alone", "together"}]
      /\ Exited \in [pc : KeeperSteps, by : {"keeper", "boot"}, run : {"alone", "together"}]
  BY DEF Asleep, Booting, Exited, KeeperSteps
<1>t. \A both : Together(both) \in {"alone", "together"}
  BY DEF Together
<1>v. \A both : Overlap(both) => drift' \subseteq Parts
  BY DEF Overlap, TypeOK
<1>1. ASSUME NEW r \in Requests, Receive(r)
      PROVE  TypeOK'
  <2>1. op' \in Operation
    <3>1. Calls(r) \in Seq([do : Dos, files : SUBSET Parts])
      BY CallsType DEF Calling
    <3>2. op' = [pc |-> "work", req |-> r, todo |-> Calls(r), tx |-> db,
                 wrote |-> {}, stale |-> {}, run |-> Together(keeper.pc # "sleep")]
      BY <1>1 DEF Receive
    <3>3. db \in Tables
      BY DEF TypeOK
    <3>q. QED  BY <3>1, <3>2, <3>3, <1>t DEF Operation
  <2>2. keeper' \in [pc : KeeperSteps, by : {"keeper", "boot"}, run : {"alone", "together"}]
    BY <1>1, <1>k DEF Receive
  <2>3. requests' \in 0 .. MaxRequests
    BY <1>1, <1>b DEF Receive, TypeOK
  <2>4. drift' \subseteq Parts
    BY <1>1, <1>v DEF Receive
  <2>q. QED  BY <1>1, <2>1, <2>2, <2>3, <2>4 DEF Receive, TypeOK
<1>w. ASSUME Busy, op.todo # <<>>, op' \in Operation, disk' \in Files, run' \in Files,
             UNCHANGED <<db, up, keeper, bounds, drift>>
      PROVE  TypeOK'
  BY <1>w DEF TypeOK, bounds
<1>h. Busy => op \in Operation /\ op.tx \in Tables
  BY BusyType
<1>s. Busy /\ op.todo # <<>> => Step \in Calling /\ Step.files \in SUBSET Parts
                                  /\ Tail(op.todo) \in Seq([do : Dos, files : SUBSET Parts])
  BY BusyType DEF Calling
<1>2. CASE Statement
  <2>1. Busy /\ op.todo # <<>> /\ UNCHANGED <<db, up, keeper, bounds, drift>>
    BY <1>2 DEF Statement, Proceed
  <2>2. (IF Step.do = "sql" THEN Executed(op.req, op.tx) ELSE op.tx) \in Tables
    <3>1. op.req \in Requests
      BY <1>h, <2>1 DEF Operation
    <3>q. QED  BY <1>2, <1>h, <2>1, <3>1, ExecutedType DEF Statement
  <2>3. op' = [op EXCEPT !.todo = Tail(@),
                         !.tx = IF Step.do = "sql" THEN Executed(op.req, @) ELSE @]
    BY <1>2 DEF Statement
  <2>4. op' \in Operation
    BY <1>h, <1>s, <2>1, <2>2, <2>3 DEF Operation
  <2>q. QED  BY <1>2, <1>w, <2>1, <2>4 DEF Statement, TypeOK
<1>3. CASE Write
  <2>1. Busy /\ op.todo # <<>> /\ UNCHANGED <<db, up, keeper, bounds, drift>>
    BY <1>3 DEF Write, Proceed
  <2>2. Kept(Step.files) \subseteq Parts
    BY <1>s, <2>1 DEF Kept
  <2>3. op' = [op EXCEPT !.todo = Tail(@), !.wrote = @ \cup Step.files,
                         !.stale = @ \cup (IF Step.do = "rules" THEN Kept(Step.files) ELSE {})]
    BY <1>3 DEF Write
  <2>4. op' \in Operation
    BY <1>h, <1>s, <2>1, <2>2, <2>3 DEF Operation
  <2>5. disk' \in Files
    BY <1>3, <1>h, <2>1, ShownType DEF Write, TypeOK
  <2>q. QED  BY <1>3, <1>w, <2>1, <2>4, <2>5 DEF Write, TypeOK
<1>m. \A F : Removed(F) => disk' \in Files
  BY FilesType DEF Removed, TypeOK
<1>4. CASE RemoveFiles
  <2>1. Busy /\ op.todo # <<>> /\ UNCHANGED <<db, up, keeper, bounds, drift>>
    BY <1>4 DEF RemoveFiles, Proceed
  <2>2. op' = [op EXCEPT !.todo = Tail(@), !.wrote = @ \cup Step.files]
    BY <1>4 DEF RemoveFiles
  <2>3. op' \in Operation
    BY <1>h, <1>s, <2>1, <2>2 DEF Operation
  <2>4. disk' \in Files
    BY <1>4, <1>m DEF RemoveFiles, TypeOK
  <2>q. QED  BY <1>4, <1>w, <2>1, <2>3, <2>4 DEF RemoveFiles, TypeOK
<1>f. disk \in Files /\ run \in Files /\ run.rules \in [RuleFiles -> Content]
  BY DEF TypeOK, Files
<1>r. ReconfigDone => run' \in Files
  BY <1>f, ReadType DEF ReconfigDone
<1>5. CASE ReconfigDNS
  <2>1. Busy /\ op.todo # <<>> /\ UNCHANGED <<db, up, keeper, bounds, drift>>
    BY <1>5 DEF ReconfigDNS, Proceed
  <2>2. op' = [op EXCEPT !.todo = Tail(@)]
    BY <1>5 DEF ReconfigDNS
  <2>3. op' \in Operation
    BY <1>h, <1>s, <2>1, <2>2 DEF Operation
  <2>q. QED  BY <1>5, <1>w, <1>r, <2>1, <2>3 DEF ReconfigDNS, TypeOK
<1>6. CASE Commit
  <2>1. op \in Operation
    BY <1>6, <1>h DEF Commit
  <2>2. Mistaken(op.req, db) \in SUBSET Parts
    BY MistakenParts DEF TypeOK
  <2>3. drift' \subseteq Parts /\ db' \in Tables
    BY <1>6, <2>1, <2>2 DEF Commit, TypeOK, Operation
  <2>q. QED  BY <1>6, <2>3 DEF Commit, TypeOK, bounds
<1>7. CASE Fails
  <2>1. op \in Operation
    BY <1>7, <1>h DEF Fails
  <2>2. drift' \subseteq Parts
    BY <1>7, <1>s, <2>1 DEF Fails, TypeOK, Operation
  <2>3. disk' \in Files /\ run' \in Files
    BY <1>7, <1>m, <1>r, <1>f DEF Fails
  <2>q. QED  BY <1>7, <2>2, <2>3 DEF Fails, TypeOK, bounds
<1>8. CASE KeeperWakes
  <2>1. keeper' \in [pc : KeeperSteps, by : {"keeper", "boot"}, run : {"alone", "together"}]
    BY <1>8, <1>t DEF KeeperWakes, KeeperSteps
  <2>2. op' = Idle \/ op' \in Operation
    <3>1. CASE Busy
      BY <1>8, <1>h, <3>1 DEF KeeperWakes, Operation
    <3>2. CASE ~Busy
      BY <1>8, <3>2, BusyType DEF KeeperWakes
    <3>q. QED  BY <3>1, <3>2
  <2>3. drift' \subseteq Parts
    BY <1>8, <1>v DEF KeeperWakes
  <2>q. QED  BY <1>8, <2>1, <2>2, <2>3 DEF KeeperWakes, TypeOK, bounds
<1>9. CASE Defaults
  <2> DEFINE A == WithDefaults(db)["acls"] \ db["acls"]
             V == WithDefaults(db)["views"] \ db["views"]
             With(d) == [d EXCEPT !.acls = @ \cup A, !.views = @ \cup V]
  <2>1. db \in Tables
    BY DEF TypeOK
  <2>2. A \in SUBSET Acls /\ V \in SUBSET (Views \X Acls)
    BY <2>1, DefaultsPut
  <2>3. /\ db' = With(db)
        /\ op' = IF Busy THEN [op EXCEPT !.tx = With(@)] ELSE op
        /\ drift' = drift \cup (IF A # {} THEN {AclFile} ELSE {}) \cup (IF V # {} THEN {ViewFile} ELSE {})
    BY <1>9 DEF Defaults
  <2> HIDE DEF A, V
  <2>4. \A d \in Tables : With(d) \in Tables
    BY <2>2, DefaultsType
  <2>5. op' = Idle \/ op' \in Operation
    <3>1. CASE Busy
      <4>1. With(op.tx) \in Tables
        BY <1>h, <2>4, <3>1
      <4>q. QED  BY <1>h, <2>3, <3>1, <4>1 DEF Operation
    <3>2. CASE ~Busy
      BY <2>3, <3>2, BusyType
    <3>q. QED  BY <3>1, <3>2
  <2>6. drift' \subseteq Parts
    BY <2>3 DEF TypeOK, Parts
  <2>7. keeper' \in [pc : KeeperSteps, by : {"keeper", "boot"}, run : {"alone", "together"}]
    BY <1>9, <1>k DEF Defaults, KeeperSteps
  <2>8. db' \in Tables
    BY <2>1, <2>3, <2>4
  <2>9. UNCHANGED <<disk, up, run, bounds>>
    BY <1>9 DEF Defaults
  <2>q. QED  BY <2>5, <2>6, <2>7, <2>8, <2>9 DEF TypeOK, bounds
<1>10. CASE InitFile
  <2>1. NextFile(keeper.pc) \in KeeperSteps
    BY <1>10 DEF InitFile, NextFile, KeeperSteps
  <2>2. disk' \in Files
    <3>1. db \in Tables /\ disk \in Files
      BY DEF TypeOK
    <3>2. \A F : WrittenRules(db, F, RemovedRules(F, disk)) \in Files
      BY <3>1, FilesType
    <3>3. Shown(keeper.pc, db, {}, disk) \in Files
      BY <3>1, ShownType
    <3>q. QED  BY <1>10, <3>2, <3>3 DEF InitFile
  <2>q. QED  BY <1>10, <1>k, <2>1, <2>2 DEF InitFile, TypeOK, bounds
<1>11. CASE Start
  <2>1. run' \in Files
    <3>1. Nothing \in [RuleFiles -> Content]
      BY <1>f, ReadType
    <3>q. QED  BY <1>11, <1>f, <3>1, ReadType DEF Start
  <2>q. QED  BY <1>11, <1>p, <2>1 DEF Start, TypeOK, bounds
<1>12. CASE KeeperFails
  <2>1. drift' \subseteq Parts
    BY <1>12 DEF KeeperFails, TypeOK, Types, Parts, RuleFiles
  <2>2. disk' \in Files
    BY <1>12, <1>m DEF KeeperFails, TypeOK
  <2>3. keeper' \in [pc : KeeperSteps, by : {"keeper", "boot"}, run : {"alone", "together"}]
    BY <1>12, <1>p DEF KeeperFails
  <2>q. QED  BY <1>12, <2>1, <2>2, <2>3 DEF KeeperFails, TypeOK, bounds
<1>13. CASE NamedDies
  BY <1>13 DEF NamedDies, TypeOK, bounds
<1>14. CASE AgentRestarts
  <2>1. drift' \subseteq Parts
    BY <1>14, <1>h DEF AgentRestarts, TypeOK, Operation
  <2>2. crashes' \in 0 .. MaxCrashes
    BY <1>14, <1>b DEF AgentRestarts, TypeOK
  <2>q. QED  BY <1>14, <1>p, <2>1, <2>2 DEF AgentRestarts, TypeOK
<1>15. CASE UNCHANGED vars
  BY <1>15 DEF vars, bounds, TypeOK
<1>q. QED
  BY <1>1, <1>2, <1>3, <1>4, <1>5, <1>6, <1>7, <1>8, <1>9, <1>10, <1>11, <1>12, <1>13, <1>14, <1>15 DEF Next

\* Whatever the views, access lists and requests: every variable has its type,
\* and no view, forward zone or redirection loses the row it refers to.
THEOREM TypeCorrect == Spec => []TypeOK
  BY TypeInit, TypeStep, PTL DEF Spec

-----------------------------------------------------------------------------
(* What does not disturb the files or named.                               *)

LEMMA DiskKept ==
    ASSUME DiskOK, db' = db, disk' = disk, Unsettled \subseteq Unsettled'
    PROVE  DiskOK'
  BY DEF DiskOK

LEMMA RunKept ==
    ASSUME RunOK, db' = db, run' = run, up' => up, Unsettled \subseteq Unsettled'
    PROVE  RunOK'
  BY DEF RunOK, RunsAsCommitted

\* When every file may differ nothing is promised.
LEMMA AllDrifted ==
    ASSUME drift' = Parts
    PROVE  DiskOK' /\ RunOK'
<1>1. AclFile \in Unsettled' /\ OptionsFile \in Unsettled' /\ ViewFile \in Unsettled'
      /\ \A f \in RuleFiles : f \in Unsettled'
  BY DEF Unsettled, Parts
<1>q. QED  BY <1>1 DEF DiskOK, RunOK, RunsAsCommitted

\* named reads files that are settled, and drops what it had loaded of others.
LEMMA ReconfigRun ==
    ASSUME TypeOK, DiskOK, RunOK, ReconfigDone, db' = db, Unsettled \subseteq Unsettled'
    PROVE  RunOK'
<1>1. /\ run'.acls = disk.acls /\ run'.options = disk.options /\ run'.views = disk.views
      /\ run'.forwards = disk.forwards
      /\ \A f \in RuleFiles : run'.rules[f] =
            IF f \notin disk.refs THEN Absent ELSE IF run.rules[f] # Absent THEN run.rules[f] ELSE disk.rules[f]
  BY DEF ReconfigDone, Read, TypeOK, Files
<1>2. \A f \in Refs(db) : RuleFile(db, f) # Absent
  BY DEF Refs
<1>3. \A f \in RuleFiles \ Refs(db) : RuleFile(db, f) = Absent
  BY DEF Refs
<1>u. up
  BY DEF ReconfigDone
<1>4. ASSUME NEW f \in RuleFiles \ Unsettled'
      PROVE  run'.rules[f] \in {Absent, RuleFile(db, f)}
  <2>1. run.rules[f] \in {Absent, RuleFile(db, f)}
    BY <1>4, <1>u DEF RunOK
  <2>2. disk.rules[f] = RuleFile(db, f) \/ f \notin disk.refs
    BY <1>4 DEF DiskOK
  <2>q. QED  BY <1>1, <2>1, <2>2
<1>5. ASSUME NEW f \in RuleFiles \ Unsettled', ViewFile \notin Unsettled'
      PROVE  run'.rules[f] = RuleFile(db, f)
  <2>1. run.rules[f] \in {Absent, RuleFile(db, f)}
    BY <1>5, <1>u DEF RunOK
  <2>2. disk.rules[f] = RuleFile(db, f) \/ f \notin Refs(db)
    BY <1>5 DEF DiskOK
  <2>3. disk.refs = Refs(db)
    BY <1>5 DEF DiskOK
  <2>q. QED  BY <1>1, <1>2, <1>3, <2>1, <2>2, <2>3
<1>6. RunsAsCommitted'
  BY <1>1, <1>5 DEF RunsAsCommitted, DiskOK
<1>q. QED  BY <1>4, <1>6 DEF RunOK

-----------------------------------------------------------------------------
(* What the calls ahead say of the one that is made.                       *)

LEMMA MadeCall ==
    ASSUME NEW r, NEW t \in Seq(Calling), t # <<>>, Proper(r, t)
    PROVE  LET s == Tail(t) IN
           /\ Subject(t[1])
           /\ s = <<>> => t[1].do = "reconfig"
           /\ s # <<>> /\ s[1].do = "reconfig" => r.kind \in NoView \/ t[1].do \in {"view", "noRPZ"}
           /\ s # <<>> /\ s[1].do = "rules" =>
                \/ r.kind = "ttl" /\ t[1] = Call("removeAll", s[1].files)
                \/ r.kind # "ttl" /\ t[1].do = "reconfig" /\ \A f \in s[1].files : f[1] = "rpz"
                \/ r.kind # "ttl" /\ t[1].do = "remove" /\ \A f \in s[1].files : f[1] = "redirect"
           /\ Len(s) >= 2 /\ s[1].do = "reconfig" /\ s[2].do = "rules" /\ r.kind # "ttl" => t[1].do = "noRPZ"
           /\ t[1].do = "noRPZ" => ViewFile \in About(s)
           /\ t[1].do = "rules" => t[1].files \cap About(s) = {}
           /\ t[1].do \in {"remove", "removeAll"} =>
                \/ /\ r.kind = "deleteView" /\ \A f \in t[1].files : f[2] = r.view
                   /\ t[1].files \cap About(s) = {}
                \/ s # <<>> /\ s[1] = Call("rules", t[1].files) /\ t[1].files \subseteq About(s)
                \/ /\ Len(s) >= 3 /\ s[1].do = "noRPZ" /\ s[2].do = "reconfig"
                   /\ s[3] = Call("rules", t[1].files) /\ t[1].files \subseteq About(s)
<1> DEFINE s == Tail(t)
<1>1. Len(t) \in Nat \ {0} /\ Len(s) = Len(t) - 1 /\ \A i \in 1 .. Len(s) : s[i] = t[i + 1]
  BY AboutTail
<1>2. s \in Seq(Calling)
  BY AboutTail
<1> HIDE DEF s
<1>3. s = <<>> <=> Len(s) = 0
  BY <1>2
<1>4. \A i \in 1 .. Len(t) : Fits(r, t, i)
  BY DEF Proper
<1>5. Fits(r, t, 1)
  BY <1>1, <1>4
<1>6. s # <<>> => Len(s) >= 1 /\ Fits(r, t, 2) /\ s[1] = t[2]
  BY <1>1, <1>3, <1>4
<1>7. Len(s) >= 2 => Fits(r, t, 3) /\ s[2] = t[3] /\ s # <<>>
  BY <1>1, <1>3, <1>4
<1>8. Len(s) >= 3 => Fits(r, t, 4) /\ s[3] = t[4]
  BY <1>1, <1>4
<1>11. Subject(t[1]) /\ (s = <<>> => t[1].do = "reconfig")
  BY <1>1, <1>3, <1>5 DEF Fits, InPlace
<1>12. s # <<>> /\ s[1].do = "reconfig" => r.kind \in NoView \/ t[1].do \in {"view", "noRPZ"}
  BY <1>6 DEF Fits, ReadsViews
<1>13. s # <<>> /\ s[1].do = "rules" =>
                \/ r.kind = "ttl" /\ t[1] = Call("removeAll", s[1].files)
                \/ r.kind # "ttl" /\ t[1].do = "reconfig" /\ \A f \in s[1].files : f[1] = "rpz"
                \/ r.kind # "ttl" /\ t[1].do = "remove" /\ \A f \in s[1].files : f[1] = "redirect"
  BY <1>6 DEF Fits, Unloaded
<1>14. Len(s) >= 2 /\ s[1].do = "reconfig" /\ s[2].do = "rules" /\ r.kind # "ttl" => t[1].do = "noRPZ"
  BY <1>6, <1>7 DEF Fits, Unloaded
<1>15. t[1].do = "noRPZ" => ViewFile \in About(s)
  <2> SUFFICES ASSUME t[1].do = "noRPZ" PROVE ViewFile \in About(s)
    OBVIOUS
  <2>1. 4 <= Len(t) /\ t[4].do = "view"
    BY <1>5 DEF Fits, BringsBack
  <2>2. Subject(t[4]) /\ 3 \in 1 .. Len(s) /\ s[3] = t[4]
    BY <1>1, <1>8, <2>1 DEF Fits, InPlace
  <2>3. ViewFile \in s[3].files
    BY <2>1, <2>2 DEF Subject
  <2>q. QED  BY <2>2, <2>3, AboutMember
<1>16. ASSUME Once(r, t, 1), t[1].do = "rules" \/ (t[1].do \in {"remove", "removeAll"} /\ r.kind = "deleteView")
       PROVE  t[1].files \cap About(s) = {}
  <2>1. \A i \in 1 .. Len(s) : t[1].files \cap s[i].files = {}
    <3>1. \A i \in 1 .. Len(s) : i + 1 \in 1 + 1 .. Len(t) /\ s[i] = t[i + 1]
      BY <1>1
    <3>q. QED  BY <1>16, <3>1 DEF Once
  <2>q. QED  BY <2>1 DEF About
<1>17. t[1].do = "rules" => t[1].files \cap About(s) = {}
  BY <1>5, <1>16 DEF Fits
<1>18. t[1].do \in {"remove", "removeAll"} =>
                \/ /\ r.kind = "deleteView" /\ \A f \in t[1].files : f[2] = r.view
                   /\ t[1].files \cap About(s) = {}
                \/ s # <<>> /\ s[1] = Call("rules", t[1].files) /\ t[1].files \subseteq About(s)
                \/ /\ Len(s) >= 3 /\ s[1].do = "noRPZ" /\ s[2].do = "reconfig"
                   /\ s[3] = Call("rules", t[1].files) /\ t[1].files \subseteq About(s)
  <2> SUFFICES ASSUME t[1].do \in {"remove", "removeAll"}
               PROVE \/ /\ r.kind = "deleteView" /\ \A f \in t[1].files : f[2] = r.view
                        /\ t[1].files \cap About(s) = {}
                     \/ s # <<>> /\ s[1] = Call("rules", t[1].files) /\ t[1].files \subseteq About(s)
                     \/ /\ Len(s) >= 3 /\ s[1].do = "noRPZ" /\ s[2].do = "reconfig"
                        /\ s[3] = Call("rules", t[1].files) /\ t[1].files \subseteq About(s)
    OBVIOUS
  <2>1. RemovesFirst(r, t, 1) /\ Once(r, t, 1)
    BY <1>5 DEF Fits
  <2>2. CASE r.kind = "deleteView" /\ \A f \in t[1].files : f[2] = r.view
    BY <1>16, <2>1, <2>2
  <2>3. CASE 2 <= Len(t) /\ t[2] = Call("rules", t[1].files)
    <3>1. 1 \in 1 .. Len(s) /\ s[1] = Call("rules", t[1].files) /\ s # <<>>
      BY <1>1, <1>3, <2>3
    <3>2. s[1].files = t[1].files
      BY <3>1 DEF Call
    <3>3. t[1].files \subseteq About(s)
      BY <3>1, <3>2, AboutMember
    <3>q. QED  BY <3>1, <3>3
  <2>4. CASE 4 <= Len(t) /\ t[2].do = "noRPZ" /\ t[3].do = "reconfig" /\ t[4] = Call("rules", t[1].files)
    <3>1. 3 \in 1 .. Len(s) /\ s[3] = Call("rules", t[1].files) /\ Len(s) >= 3 /\ s[1] = t[2] /\ s[2] = t[3]
      BY <1>1, <2>4
    <3>2. s[3].files = t[1].files
      BY <3>1 DEF Call
    <3>3. t[1].files \subseteq About(s)
      BY <3>1, <3>2, AboutMember
    <3>q. QED  BY <2>4, <3>1, <3>3
  <2>q. QED  BY <2>1, <2>2, <2>3, <2>4 DEF RemovesFirst
<1>q. QED  BY <1>11, <1>12, <1>13, <1>14, <1>15, <1>17, <1>18 DEF s

-----------------------------------------------------------------------------
(* The calls of a handler.                                                 *)

LEMMA TogetherCall ==
    ASSUME IInv, Busy, op.run = "together", Busy', op'.run = op.run, UNCHANGED <<keeper, drift>>
    PROVE  DiskOK' /\ RunOK' /\ HandlerOK' /\ KeeperOK'
<1>1. drift = Parts /\ drift' = Parts
  BY DEF IInv, KeeperOK
<1>2. DiskOK' /\ RunOK'
  BY <1>1, AllDrifted
<1>3. HandlerOK'
  BY DEF HandlerOK
<1>4. KeeperOK'
  BY <1>1 DEF IInv, KeeperOK, Awake
<1>q. QED  BY <1>2, <1>3, <1>4

\* Alone, the keeper sleeps.
LEMMA AloneKeeper ==
    ASSUME IInv, Busy, op.run = "alone", Busy', op'.run = op.run, UNCHANGED keeper
    PROVE  keeper'.pc = "sleep" /\ KeeperOK'
<1>1. keeper.pc = "sleep" /\ keeper.by # "boot"
  BY DEF IInv, HandlerOK, KeeperOK
<1>q. QED  BY <1>1 DEF KeeperOK, Awake

LEMMA AheadStep ==
    ASSUME TypeOK, Ahead, Busy, op.todo # <<>>,
           op'.req = op.req, op'.todo = Tail(op.todo), op'.wrote = op.wrote \cup Step.files,
           op'.tx = IF Step.do = "sql" THEN Executed(op.req, op.tx) ELSE op.tx,
           db' = db
    PROVE  /\ Ahead'
           /\ op'.tx = Executed(op.req, db)
<1> DEFINE r == op.req
           t == op.todo
           s == Tail(op.todo)
<1>t. r \in Requests /\ t \in Seq(Calling) /\ t # <<>> /\ db \in Tables
  BY BusyType DEF TypeOK
<1>h. Step = t[1] /\ Step \in Calling
  BY <1>t, AboutTail DEF Step
<1>p. Proper(r, t)
  BY DEF Ahead
<1>s. /\ s \in Seq(Calling) /\ Len(s) = Len(t) - 1
      /\ \A i \in 1 .. Len(s) : s[i] = t[i + 1]
      /\ About(t) = Step.files \cup About(s)
  BY <1>t, <1>h, AboutTail
<1>1. Proper(r, s) /\ \A i \in 1 .. Len(s) : s[i].do # "sql"
  BY <1>t, <1>p, TailProper
<1>m. /\ Subject(t[1])
      /\ s # <<>> /\ s[1].do = "reconfig" => r.kind \in NoView \/ t[1].do \in {"view", "noRPZ"}
      /\ t[1].do = "rules" => t[1].files \cap About(s) = {}
      /\ t[1].do \in {"remove", "removeAll"} =>
                \/ t[1].files \cap About(s) = {}
                \/ s # <<>> /\ s[1] = Call("rules", t[1].files)
                \/ /\ Len(s) >= 3 /\ s[1].do = "noRPZ" /\ s[2].do = "reconfig"
                   /\ s[3] = Call("rules", t[1].files)
  BY <1>t, <1>p, MadeCall
<1>c. Calls(r) # <<>> /\ Len(Calls(r)) > 2 /\ Calls(r)[1] = Call("sql", {}) /\ Calls(r) \in Seq(Calling)
  <2>1. Calls(r) # <<>>
    BY <1>t DEF Ahead
  <2>q. QED  BY <2>1, <1>t, AboutCalls, CallsType
<1>2. s # Calls(r)
  <2>1. Calls(r)[1].do = "sql" /\ 1 \in 1 .. Len(Calls(r))
    BY <1>c DEF Call
  <2>q. QED  BY <1>1, <2>1
<1>3. op'.tx = Executed(r, db)
  <2>1. CASE t = Calls(r)
    <3>1. Step.do = "sql"
      BY <1>c, <1>h, <2>1 DEF Call
    <3>2. op.tx = db
      BY <2>1 DEF Ahead
    <3>q. QED  BY <3>1, <3>2
  <2>2. CASE t # Calls(r)
    <3>1. 1 \in 1 .. Len(t)
      BY <1>t
    <3>2. Step.do # "sql" /\ op.tx = Executed(r, db)
      BY <1>h, <2>2, <3>1 DEF Ahead
    <3>q. QED  BY <3>2
  <2>q. QED  BY <2>1, <2>2
<1>4. op.wrote \cup Step.files \cup About(s) = About(Calls(r))
  BY <1>s DEF Ahead
<1>n. s # <<>> => Len(s) >= 1 /\ Head(s) = s[1]
  BY <1>s
<1>5. ASSUME NEW f \in Refs(Executed(r, db)) \ Refs(db)
      PROVE  f \in op.wrote \cup Step.files \/ (s # <<>> /\ f \in Head(s).files)
  <2>1. CASE t = Calls(r)
    <3>1. f \in t[2].files
      BY <1>t, <2>1, ExecutedRules
    <3>2. s # <<>> /\ Len(s) >= 1 /\ s[1] = t[2]
      <4>1. Len(t) > 2 /\ Len(t) \in Nat /\ Len(s) = Len(t) - 1
        BY <1>c, <1>s, <1>t, <2>1
      <4>2. \A m, n \in Nat : n > 2 /\ m = n - 1 => 1 \in 1 .. m /\ m >= 1 /\ m # 0 /\ 1 + 1 = 2
        OBVIOUS
      <4>3. Len(s) \in Nat
        BY <1>s
      <4>4. 1 \in 1 .. Len(s) /\ Len(s) >= 1 /\ Len(s) # 0 /\ 1 + 1 = 2
        BY <4>1, <4>2, <4>3
      <4>5. \A x \in Seq(Calling) : Len(x) # 0 => x # <<>>
        OBVIOUS
      <4>6. s # <<>>
        BY <1>s, <4>4, <4>5
      <4>q. QED  BY <1>s, <4>4, <4>6
    <3>q. QED  BY <1>n, <3>1, <3>2
  <2>2. CASE t # Calls(r)
    BY <2>2 DEF Ahead
  <2>q. QED  BY <2>1, <2>2
<1>6. ASSUME NEW f \in RuleFiles, f \in op.wrote \cup Step.files, f \in About(s)
      PROVE  /\ s # <<>>
             /\ \/ s[1].do = "rules" /\ f \in s[1].files
                \/ s[1].do = "reconfig" /\ Len(s) >= 2 /\ s[2].do = "rules" /\ f \in s[2].files
                \/ /\ s[1].do = "noRPZ" /\ Len(s) >= 3
                   /\ s[2].do = "reconfig" /\ s[3].do = "rules" /\ f \in s[3].files
  <2>0. s # <<>>
    <3>1. s = <<>> => 1 .. Len(s) = {}
      OBVIOUS
    <3>q. QED  BY <1>6, <3>1 DEF About
  <2>1. CASE f \in op.wrote
    <3>1. \/ Step.do = "rules" /\ f \in Step.files
          \/ Step.do = "reconfig" /\ Len(t) >= 2 /\ t[2].do = "rules" /\ f \in t[2].files
          \/ /\ Step.do = "noRPZ" /\ Len(t) >= 3
             /\ t[2].do = "reconfig" /\ t[3].do = "rules" /\ f \in t[3].files
      BY <1>6, <1>s, <2>1 DEF Ahead
    <3>2. ~(Step.do = "rules" /\ f \in Step.files)
      BY <1>6, <1>h, <1>m
    <3>3. Len(t) >= 2 => s[1] = t[2]
      BY <1>s, <1>t
    <3>4. Len(t) >= 3 => s[2] = t[3] /\ Len(s) >= 2
      BY <1>s, <1>t
    <3>5. Len(t) >= 3 => Len(t) >= 2
      BY <1>t
    <3>q. QED  BY <2>0, <3>1, <3>2, <3>3, <3>4, <3>5
  <2>2. CASE f \in Step.files
    <3>1. f # AclFile /\ f # OptionsFile /\ f # ViewFile
      BY NotRules
    <3>2. t[1].do \in {"rules", "remove", "removeAll"}
      BY <1>h, <1>m, <2>2, <3>1 DEF Subject
    <3>3. \/ s # <<>> /\ s[1] = Call("rules", t[1].files)
          \/ /\ Len(s) >= 3 /\ s[1].do = "noRPZ" /\ s[2].do = "reconfig"
             /\ s[3] = Call("rules", t[1].files)
      BY <1>6, <1>h, <1>m, <2>2, <3>2
    <3>q. QED  BY <1>h, <2>0, <2>2, <3>3 DEF Call
  <2>q. QED  BY <1>6, <2>1, <2>2
<1>7. s # <<>> /\ s[1].do = "reconfig" => r.kind \in NoView \/ ViewFile \in op.wrote \cup Step.files
  <2>1. t[1].do \in {"view", "noRPZ"} => ViewFile \in t[1].files
    BY <1>m DEF Subject
  <2>q. QED  BY <1>h, <1>m, <2>1
<1>8. Ahead'
  <2>1. /\ op'.req = r /\ op'.todo = s /\ op'.wrote = op.wrote \cup Step.files
        /\ op'.tx = Executed(r, db) /\ db' = db /\ Step' = Head(s)
    BY <1>3 DEF Step
  <2>2. Calls(r)' = Calls(r) /\ Calls(op'.req) = Calls(r)
    BY <2>1
  <2> HIDE DEF s, r
  <2>q. QED
    BY <1>1, <1>2, <1>4, <1>5, <1>6, <1>7, <1>c, <1>n, <2>1, <2>2 DEF Ahead
<1>q. QED  BY <1>3, <1>8

\* What holds at every call of a handler that is alone.
LEMMA AloneCall ==
    ASSUME IInv, Busy, op.run = "alone", op.todo # <<>>
    PROVE  /\ op.req \in Requests /\ op.todo \in Seq(Calling) /\ op.tx \in Tables /\ db \in Tables
           /\ disk \in Files /\ run \in Files /\ op \in Operation
           /\ Ahead /\ Shows /\ Loads /\ Proper(op.req, op.todo)
           /\ Step = op.todo[1] /\ Subject(Step) /\ Step.files \in SUBSET Parts
           /\ About(op.todo) = Step.files \cup About(Tail(op.todo))
           /\ Tail(op.todo) \in Seq(Calling) /\ Len(Tail(op.todo)) = Len(op.todo) - 1
<1>1. /\ op.req \in Requests /\ op.todo \in Seq(Calling) /\ op.tx \in Tables
      /\ op \in Operation /\ Step.files \in SUBSET Parts
  BY BusyType DEF IInv
<1>2. db \in Tables /\ disk \in Files /\ run \in Files
  BY DEF IInv, TypeOK
<1>3. Ahead /\ Shows /\ Loads /\ Proper(op.req, op.todo)
  BY DEF IInv, HandlerOK, Ahead
<1>4. /\ Step = op.todo[1] /\ About(op.todo) = Step.files \cup About(Tail(op.todo))
      /\ Tail(op.todo) \in Seq(Calling) /\ Len(Tail(op.todo)) = Len(op.todo) - 1
  BY <1>1, AboutTail DEF Step
<1>5. Subject(Step)
  BY <1>1, <1>3, <1>4, MadeCall
<1>q. QED  BY <1>1, <1>2, <1>3, <1>4, <1>5

\* After the statement the tables of the transaction are those to commit, and
\* none is shown yet.
LEMMA StatementStep ==
    ASSUME IInv, Statement
    PROVE  DiskOK' /\ RunOK' /\ HandlerOK' /\ KeeperOK'
<1>1. /\ Busy /\ op.todo # <<>> /\ Step.do \in {"sql", "zones"}
      /\ UNCHANGED <<db, up, keeper, drift, disk, run>>
      /\ op' = [op EXCEPT !.todo = Tail(@),
                          !.tx = IF Step.do = "sql" THEN Executed(op.req, @) ELSE @]
  BY DEF Statement, Proceed
<1>o. op \in Operation
  BY <1>1, BusyType DEF IInv
<1>2. /\ op'.pc = op.pc /\ op'.req = op.req /\ op'.todo = Tail(op.todo) /\ op'.wrote = op.wrote
      /\ op'.stale = op.stale /\ op'.run = op.run
      /\ op'.tx = IF Step.do = "sql" THEN Executed(op.req, op.tx) ELSE op.tx
  BY <1>1, <1>o DEF Operation
<1>b. Busy'
  BY <1>1, <1>2 DEF Busy
<1>3. CASE op.run = "together"
  BY <1>1, <1>2, <1>3, <1>b, TogetherCall
<1>4. CASE op.run = "alone"
  <2> DEFINE r == op.req
             t == op.todo
             s == Tail(op.todo)
  <2>c. /\ r \in Requests /\ t \in Seq(Calling) /\ t # <<>> /\ Proper(r, t) /\ Ahead /\ Shows /\ Loads
        /\ Step = t[1] /\ Subject(Step) /\ About(t) = Step.files \cup About(s)
        /\ s \in Seq(Calling)
    BY <1>1, <1>4, AloneCall
  <2>f. Step.files = {}
    BY <1>1, <2>c DEF Subject
  <2>1. Ahead'
    BY <1>1, <1>2, <2>c, <2>f, AheadStep DEF IInv
  <2>2. DiskOK' /\ RunOK'
    BY <1>1, <1>2, <1>b, DiskKept, RunKept DEF IInv, Unsettled
  <2>3. KeeperOK' /\ keeper'.pc = "sleep"
    BY <1>1, <1>2, <1>4, <1>b, AloneKeeper
  <2>4. /\ s # <<>>
        /\ s[1].do # "rules"
        /\ ~(Len(s) >= 2 /\ s[1].do = "reconfig" /\ s[2].do = "rules" /\ r.kind # "ttl")
    <3>1. t[1].do \in {"sql", "zones"}
      BY <1>1, <2>c
    <3>2. /\ s = <<>> => t[1].do = "reconfig"
          /\ s # <<>> /\ s[1].do = "rules" =>
                \/ t[1] = Call("removeAll", s[1].files) \/ t[1].do = "reconfig" \/ t[1].do = "remove"
          /\ Len(s) >= 2 /\ s[1].do = "reconfig" /\ s[2].do = "rules" /\ r.kind # "ttl" => t[1].do = "noRPZ"
      BY <2>c, MadeCall
    <3>q. QED  BY <3>1, <3>2 DEF Call
  <2>5. op.wrote = {} \/ (op'.tx = op.tx /\ About(s) = About(t))
    <3>1. CASE Step.do = "sql"
      <4>1. 1 \in 1 .. Len(t)
        BY <2>c
      <4>2. t = Calls(r)
        BY <2>c, <3>1, <4>1 DEF Ahead
      <4>q. QED  BY <2>c, <4>2 DEF Ahead
    <3>2. CASE Step.do # "sql"
      BY <1>2, <2>c, <2>f, <3>2
    <3>q. QED  BY <3>1, <3>2
  <2>6. Shows'
    BY <1>1, <1>2, <2>5, <2>c DEF Shows
  <2>7. Loads'
    <3>1. Step' = s[1]
      <4>1. Step' = Head(s)
        BY <1>2 DEF Step
      <4>q. QED  BY <2>4, <2>c, <4>1
    <3>2. up' => \A f \in (RuleFiles \cap op'.wrote) \ (About(op'.todo) \cup op'.stale) :
            run'.rules[f] \in {Absent, RuleFile(op'.tx, f)} \/ (f \notin Refs(op'.tx) /\ op'.req.kind # "ttl")
      BY <1>1, <1>2, <2>5, <2>c DEF Loads
    <3>q. QED  BY <1>2, <2>4, <3>1, <3>2 DEF Loads
  <2>q. QED  BY <2>1, <2>2, <2>3, <2>6, <2>7 DEF HandlerOK
<1>q. QED  BY <1>3, <1>4, <1>o DEF Operation

NonRpz(refs) == {f \in refs : f[1] # "rpz"}

\* What each call writes, and what it leaves alone.
LEMMA ShownFields ==
    ASSUME NEW d \in Tables, NEW files \in Files, NEW do, NEW F, NEW g, g = Shown(do, d, F, files)
    PROVE  /\ g.acls = IF do = "acl" THEN d.acls ELSE files.acls
           /\ g.options = IF do = "options" THEN d.options ELSE files.options
           /\ g.views = IF do \in {"view", "noRPZ"} THEN d.views ELSE files.views
           /\ g.forwards = IF do \in {"view", "noRPZ"} THEN d.forwards ELSE files.forwards
           /\ g.refs = IF do = "view" THEN Refs(d)
                       ELSE IF do = "noRPZ" THEN NonRpz(Refs(d)) ELSE files.refs
           /\ \A f \in RuleFiles :
                g.rules[f] = IF do = "rules" /\ f \in F \cap Refs(d) THEN RuleFile(d, f) ELSE files.rules[f]
<1>1. CASE do = "acl"
  BY <1>1 DEF Shown, WrittenAcl, Files
<1>2. CASE do = "options"
  BY <1>2 DEF Shown, WrittenOptions, Files
<1>3. CASE do = "view"
  BY <1>3 DEF Shown, WrittenView, Files
<1>4. CASE do = "noRPZ"
  BY <1>4 DEF Shown, WrittenView, Files, NonRpz
<1>5. CASE do = "rules"
  BY <1>5 DEF Shown, WrittenRules, Files
<1>6. CASE do \notin {"acl", "options", "view", "noRPZ", "rules"}
  BY <1>6 DEF Shown
<1>q. QED  BY <1>1, <1>2, <1>3, <1>4, <1>5, <1>6

\* A file that is written shows what is to be committed; it is unsettled from
\* now on, and the others are left alone.
LEMMA WriteStep ==
    ASSUME IInv, Write
    PROVE  DiskOK' /\ RunOK' /\ HandlerOK' /\ KeeperOK'
<1>1. /\ Busy /\ op.todo # <<>> /\ Step.do \in {"acl", "options", "view", "noRPZ", "rules"}
      /\ UNCHANGED <<db, up, keeper, drift, run>>
      /\ disk' = Shown(Step.do, op.tx, Step.files, disk)
      /\ op' = [op EXCEPT !.todo = Tail(@), !.wrote = @ \cup Step.files,
                          !.stale = @ \cup (IF Step.do = "rules" THEN Kept(Step.files) ELSE {})]
  BY DEF Write, Proceed
<1>o. op \in Operation
  BY <1>1, BusyType DEF IInv
<1>2. /\ op'.pc = op.pc /\ op'.req = op.req /\ op'.todo = Tail(op.todo)
      /\ op'.wrote = op.wrote \cup Step.files
      /\ op'.stale = op.stale \cup (IF Step.do = "rules" THEN Kept(Step.files) ELSE {})
      /\ op'.run = op.run /\ op'.tx = op.tx
  BY <1>1, <1>o DEF Operation
<1>b. Busy'
  BY <1>1, <1>2 DEF Busy
<1>3. CASE op.run = "together"
  BY <1>1, <1>2, <1>3, <1>b, TogetherCall
<1>4. CASE op.run = "alone"
  <2> DEFINE r == op.req
             t == op.todo
             s == Tail(op.todo)
             F == Step.files
             do == Step.do
             tx == op.tx
  <2>c. /\ r \in Requests /\ t \in Seq(Calling) /\ t # <<>> /\ Proper(r, t) /\ Ahead /\ Shows /\ Loads
        /\ Step = t[1] /\ Subject(Step) /\ About(t) = F \cup About(s) /\ s \in Seq(Calling)
        /\ tx \in Tables /\ db \in Tables /\ disk \in Files
    BY <1>1, <1>4, AloneCall
  <2>d. disk \in Files /\ run \in Files
    BY DEF IInv, TypeOK
  <2>1. Ahead' /\ op'.tx = Executed(r, db)
    BY <1>1, <1>2, <2>c, AheadStep DEF IInv
  <2>f. /\ disk'.acls = IF do = "acl" THEN tx.acls ELSE disk.acls
        /\ disk'.options = IF do = "options" THEN tx.options ELSE disk.options
        /\ disk'.views = IF do \in {"view", "noRPZ"} THEN tx.views ELSE disk.views
        /\ disk'.forwards = IF do \in {"view", "noRPZ"} THEN tx.forwards ELSE disk.forwards
        /\ disk'.refs = IF do = "view" THEN Refs(tx)
                        ELSE IF do = "noRPZ" THEN NonRpz(Refs(tx)) ELSE disk.refs
        /\ \A f \in RuleFiles :
            disk'.rules[f] = IF do = "rules" /\ f \in F \cap Refs(tx) THEN RuleFile(tx, f) ELSE disk.rules[f]
    <3>1. disk' = Shown(Step.do, op.tx, Step.files, disk)
      BY <1>1
    <3>2. tx \in Tables /\ disk \in Files
      BY <2>c
    <3>q. QED  BY <3>1, <3>2, ShownFields
  <2>g. /\ do = "acl" => F = {AclFile}
        /\ do = "options" => F = {OptionsFile}
        /\ do \in {"view", "noRPZ"} => F = {ViewFile}
        /\ do = "rules" => F \subseteq RuleFiles
    BY <1>1, <2>c DEF Subject
  <2>n. \A f \in RuleFiles : f # AclFile /\ f # OptionsFile /\ f # ViewFile
    BY NotRules
  <2>v. AclFile # OptionsFile /\ AclFile # ViewFile /\ OptionsFile # ViewFile
    BY DEF AclFile, OptionsFile, ViewFile
  <2>u. Unsettled' = Unsettled \cup F
    BY <1>1, <1>2, <1>b DEF Unsettled
  <2>m. /\ s = <<>> => t[1].do = "reconfig"
        /\ s # <<>> /\ s[1].do = "rules" =>
                \/ t[1] = Call("removeAll", s[1].files) \/ t[1].do = "reconfig" \/ t[1].do = "remove"
        /\ Len(s) >= 2 /\ s[1].do = "reconfig" /\ s[2].do = "rules" /\ r.kind # "ttl" => t[1].do = "noRPZ"
        /\ t[1].do = "noRPZ" => ViewFile \in About(s)
    BY <2>c, MadeCall
  <2>2. DiskOK'
    <3>1. ASSUME NEW f \in RuleFiles \ Unsettled'
          PROVE  disk'.rules[f] = RuleFile(db, f) \/ (f \notin Refs(db) /\ f \notin disk'.refs)
      <4>1. f \notin Unsettled /\ f \notin F
        BY <2>u, <3>1
      <4>2. disk'.rules[f] = disk.rules[f]
        BY <2>f, <3>1, <4>1
      <4>3. disk.rules[f] = RuleFile(db, f) \/ (f \notin Refs(db) /\ f \notin disk.refs)
        BY <3>1, <4>1 DEF IInv, DiskOK
      <4>4. f \notin Refs(db) => f \notin Refs(tx)
        <5>1. f \notin op'.wrote
          BY <1>b, <3>1 DEF Unsettled
        <5>2. f \in op'.wrote \cup op.wrote \cup F \/ f \notin Refs(tx) \ Refs(db)
          <6>1. CASE t = Calls(r)
            BY <2>c, <6>1 DEF Ahead
          <6>2. CASE t # Calls(r)
            BY <2>c, <6>2 DEF Ahead
          <6>q. QED  BY <6>1, <6>2
        <5>q. QED  BY <1>2, <4>1, <5>1, <5>2
      <4>5. disk'.refs = disk.refs \/ disk'.refs \subseteq Refs(tx)
        BY <2>f DEF NonRpz
      <4>q. QED  BY <4>2, <4>3, <4>4, <4>5
    <3>2. AclFile \notin Unsettled' => disk'.acls = db.acls
      BY <2>f, <2>g, <2>u DEF IInv, DiskOK
    <3>3. OptionsFile \notin Unsettled' => disk'.options = db.options
      BY <2>f, <2>g, <2>u DEF IInv, DiskOK
    <3>4. ViewFile \notin Unsettled' =>
            disk'.views = db.views /\ disk'.forwards = db.forwards /\ disk'.refs = Refs(db)
      BY <2>f, <2>g, <2>u DEF IInv, DiskOK
    <3>q. QED  BY <1>1, <3>1, <3>2, <3>3, <3>4 DEF DiskOK
  <2>3. RunOK'
    BY <1>1, <2>u, RunKept DEF IInv
  <2>4. KeeperOK' /\ keeper'.pc = "sleep"
    BY <1>1, <1>2, <1>4, <1>b, AloneKeeper
  <2>5. Shows'
    <3>1. AclFile \in op'.wrote => disk'.acls = op'.tx.acls
      <4>1. AclFile \in F => do = "acl"
        BY <1>1, <2>g, <2>n, <2>v
      <4>q. QED  BY <1>2, <2>c, <2>f, <4>1 DEF Shows
    <3>2. OptionsFile \in op'.wrote => disk'.options = op'.tx.options
      <4>1. OptionsFile \in F => do = "options"
        BY <1>1, <2>g, <2>n, <2>v
      <4>q. QED  BY <1>2, <2>c, <2>f, <4>1 DEF Shows
    <3>n. NonRpz(Refs(tx)) \subseteq Refs(tx)
      BY DEF NonRpz
    <3>v. ViewFile \in F => do \in {"view", "noRPZ"}
      BY <1>1, <2>g, <2>n, <2>v
    <3>3. ViewFile \in op'.wrote => disk'.refs \subseteq Refs(op'.tx)
      BY <1>2, <2>c, <2>f, <3>n, <3>v DEF Shows
    <3>4. ViewFile \in op'.wrote \ About(op'.todo) =>
            disk'.views = op'.tx.views /\ disk'.forwards = op'.tx.forwards /\ disk'.refs = Refs(op'.tx)
      <4>1. CASE do = "view"
        BY <1>2, <2>f, <4>1
      <4>2. CASE do = "noRPZ"
        BY <1>2, <2>c, <2>m, <4>2
      <4>3. CASE do \notin {"view", "noRPZ"}
        BY <1>2, <2>c, <2>f, <3>v, <4>3 DEF Shows
      <4>q. QED  BY <4>1, <4>2, <4>3
    <3>5. ASSUME NEW f \in (RuleFiles \cap op'.wrote) \ About(op'.todo)
          PROVE  disk'.rules[f] = RuleFile(op'.tx, f) \/ (f \notin Refs(op'.tx) /\ op'.req.kind # "ttl")
      <4>1. CASE f \in F
        <5>1. do = "rules"
          BY <1>1, <2>g, <2>n, <4>1
        <5>2. CASE f \in Refs(tx)
          BY <1>2, <2>f, <4>1, <5>1, <5>2
        <5>3. CASE f \notin Refs(tx) /\ r.kind = "ttl"
          <6>1. disk.rules[f] = Absent
            BY <2>c, <4>1, <5>1, <5>3 DEF Loads
          <6>2. RuleFile(tx, f) = Absent
            BY <5>3 DEF Refs
          <6>q. QED  BY <1>2, <2>f, <5>3, <6>1, <6>2
        <5>q. QED  BY <1>2, <5>2, <5>3
      <4>2. CASE f \notin F
        <5>1. f \in (RuleFiles \cap op.wrote) \ About(t)
          BY <1>2, <2>c, <4>2
        <5>2. disk.rules[f] = RuleFile(tx, f) \/ (f \notin Refs(tx) /\ r.kind # "ttl")
          BY <2>c, <5>1 DEF Shows
        <5>q. QED  BY <1>2, <2>f, <4>2, <5>2
      <4>q. QED  BY <4>1, <4>2
    <3>q. QED  BY <3>1, <3>2, <3>3, <3>4, <3>5 DEF Shows
  <2>6. Loads'
    <3>1. ASSUME up', NEW f \in (RuleFiles \cap op'.wrote) \ (About(op'.todo) \cup op'.stale)
          PROVE  run'.rules[f] \in {Absent, RuleFile(op'.tx, f)} \/ (f \notin Refs(op'.tx) /\ op'.req.kind # "ttl")
      <4>1. CASE f \in F
        <5>1. do = "rules"
          BY <1>1, <2>g, <2>n, <4>1
        <5>2. f \notin Kept(F)
          BY <1>2, <3>1, <5>1
        <5>3. run.rules[f] = Absent \/ (f[1] # "redirect" /\ r.kind # "ttl")
          BY <4>1, <5>2 DEF Kept
        <5>4. f[1] \in {"rpz", "redirect"}
          BY <3>1 DEF RuleFiles, Types
        <5>5. f[1] # "redirect" /\ r.kind # "ttl" => run.rules[f] = Absent
          BY <1>1, <2>c, <3>1, <4>1, <5>1, <5>4 DEF Loads
        <5>q. QED  BY <1>1, <5>3, <5>5
      <4>2. CASE f \notin F
        <5>1. f \in (RuleFiles \cap op.wrote) \ (About(t) \cup op.stale)
          BY <1>2, <2>c, <3>1, <4>2
        <5>q. QED  BY <1>1, <1>2, <2>c, <3>1, <5>1 DEF Loads
      <4>q. QED  BY <4>1, <4>2
    <3>2. s # <<>> /\ Step' = s[1]
      <4>1. Step' = Head(s) /\ s # <<>>
        BY <1>1, <1>2, <2>c, <2>m DEF Step
      <4>q. QED  BY <2>c, <4>1
    <3>3. Step'.do # "rules"
      BY <1>1, <2>c, <2>m, <3>2 DEF Call
    <3>4. Len(s) >= 2 /\ Step'.do = "reconfig" /\ s[2].do = "rules" /\ r.kind # "ttl" => NoRpz(disk'.refs)
      <4>1. do = "noRPZ" => NoRpz(disk'.refs)
        BY <2>f DEF NoRpz, NonRpz
      <4>q. QED  BY <2>c, <2>m, <3>2, <4>1
    <3>q. QED  BY <1>2, <3>1, <3>2, <3>3, <3>4 DEF Loads
  <2>q. QED  BY <2>1, <2>2, <2>3, <2>4, <2>5, <2>6 DEF HandlerOK
<1>q. QED  BY <1>3, <1>4, <1>o DEF Operation

\* A file that is removed is written again later, unless it is of no view any more.
LEMMA RemoveFilesStep ==
    ASSUME IInv, RemoveFiles
    PROVE  DiskOK' /\ RunOK' /\ HandlerOK' /\ KeeperOK'
<1>1. /\ Busy /\ op.todo # <<>> /\ Step.do \in {"remove", "removeAll"}
      /\ UNCHANGED <<db, up, keeper, drift, run>>
      /\ disk' = RemovedRules(Step.files, disk) \/ (Step.do = "remove" /\ disk' = disk)
      /\ op' = [op EXCEPT !.todo = Tail(@), !.wrote = @ \cup Step.files]
  BY DEF RemoveFiles, Proceed, Removed
<1>o. op \in Operation
  BY <1>1, BusyType DEF IInv
<1>2. /\ op'.pc = op.pc /\ op'.req = op.req /\ op'.todo = Tail(op.todo)
      /\ op'.wrote = op.wrote \cup Step.files
      /\ op'.stale = op.stale /\ op'.run = op.run /\ op'.tx = op.tx
  BY <1>1, <1>o DEF Operation
<1>b. Busy'
  BY <1>1, <1>2 DEF Busy
<1>3. CASE op.run = "together"
  BY <1>1, <1>2, <1>3, <1>b, TogetherCall
<1>4. CASE op.run = "alone"
  <2> DEFINE r == op.req
             t == op.todo
             s == Tail(op.todo)
             F == Step.files
             do == Step.do
             tx == op.tx
  <2>c. /\ r \in Requests /\ t \in Seq(Calling) /\ t # <<>> /\ Proper(r, t) /\ Ahead /\ Shows /\ Loads
        /\ Step = t[1] /\ Subject(Step) /\ About(t) = F \cup About(s) /\ s \in Seq(Calling)
        /\ tx \in Tables /\ db \in Tables /\ disk \in Files
    BY <1>1, <1>4, AloneCall
  <2>1. Ahead' /\ op'.tx = Executed(r, db)
    BY <1>1, <1>2, <2>c, AheadStep DEF IInv
  <2>f. /\ disk'.acls = disk.acls /\ disk'.options = disk.options /\ disk'.views = disk.views
        /\ disk'.forwards = disk.forwards /\ disk'.refs = disk.refs
        /\ \A f \in RuleFiles \ F : disk'.rules[f] = disk.rules[f]
        /\ do = "removeAll" => \A f \in RuleFiles \cap F : disk'.rules[f] = Absent
    <3>1. CASE disk' = RemovedRules(F, disk)
      BY <2>c, <3>1 DEF RemovedRules, Files
    <3>2. CASE do = "remove" /\ disk' = disk
      BY <3>2
    <3>q. QED  BY <1>1, <3>1, <3>2
  <2>g. F \subseteq RuleFiles /\ AclFile \notin F /\ OptionsFile \notin F /\ ViewFile \notin F
    BY <1>1, <2>c, NotRules DEF Subject
  <2>u. Unsettled' = Unsettled \cup F
    BY <1>1, <1>2, <1>b DEF Unsettled
  <2>m. /\ s = <<>> => t[1].do = "reconfig"
        /\ s # <<>> /\ s[1].do = "rules" =>
                \/ r.kind = "ttl" /\ t[1] = Call("removeAll", s[1].files)
                \/ r.kind # "ttl" /\ t[1].do = "reconfig" /\ \A f \in s[1].files : f[1] = "rpz"
                \/ r.kind # "ttl" /\ t[1].do = "remove" /\ \A f \in s[1].files : f[1] = "redirect"
        /\ Len(s) >= 2 /\ s[1].do = "reconfig" /\ s[2].do = "rules" /\ r.kind # "ttl" => t[1].do = "noRPZ"
        /\ \/ /\ r.kind = "deleteView" /\ \A f \in F : f[2] = r.view
              /\ F \cap About(s) = {}
           \/ F \subseteq About(s)
    BY <1>1, <2>c, MadeCall
  <2>v. \A f \in F \ About(s) : f \notin Refs(tx) /\ r.kind # "ttl"
    <3> SUFFICES ASSUME NEW f \in F \ About(s) PROVE f \notin Refs(tx) /\ r.kind # "ttl"
      OBVIOUS
    <3>1. r.kind = "deleteView" /\ f[2] = r.view
      BY <2>m
    <3>2. f \notin Refs(Executed(r, db))
      BY <2>c, <2>g, <3>1, ExecutedRules
    <3>q. QED  BY <1>2, <2>1, <3>1, <3>2
  <2>2. DiskOK'
    BY <1>1, <2>f, <2>u DEF IInv, DiskOK
  <2>3. RunOK'
    BY <1>1, <2>u, RunKept DEF IInv
  <2>4. KeeperOK' /\ keeper'.pc = "sleep"
    BY <1>1, <1>2, <1>4, <1>b, AloneKeeper
  <2>5. Shows'
    <3>1. /\ AclFile \in op'.wrote => disk'.acls = op'.tx.acls
          /\ OptionsFile \in op'.wrote => disk'.options = op'.tx.options
          /\ ViewFile \in op'.wrote => disk'.refs \subseteq Refs(op'.tx)
          /\ ViewFile \in op'.wrote \ About(op'.todo) =>
            disk'.views = op'.tx.views /\ disk'.forwards = op'.tx.forwards /\ disk'.refs = Refs(op'.tx)
      BY <1>2, <2>c, <2>f, <2>g DEF Shows
    <3>2. ASSUME NEW f \in (RuleFiles \cap op'.wrote) \ About(op'.todo)
          PROVE  disk'.rules[f] = RuleFile(op'.tx, f) \/ (f \notin Refs(op'.tx) /\ op'.req.kind # "ttl")
      <4>1. CASE f \in F
        BY <1>2, <2>v, <3>2, <4>1
      <4>2. CASE f \notin F
        <5>1. f \in (RuleFiles \cap op.wrote) \ About(t)
          BY <1>2, <2>c, <3>2, <4>2
        <5>2. disk.rules[f] = RuleFile(tx, f) \/ (f \notin Refs(tx) /\ r.kind # "ttl")
          BY <2>c, <5>1 DEF Shows
        <5>q. QED  BY <1>2, <2>f, <4>2, <5>1, <5>2
      <4>q. QED  BY <4>1, <4>2
    <3>q. QED  BY <3>1, <3>2 DEF Shows
  <2>6. Loads'
    <3>1. ASSUME up', NEW f \in (RuleFiles \cap op'.wrote) \ (About(op'.todo) \cup op'.stale)
          PROVE  run'.rules[f] \in {Absent, RuleFile(op'.tx, f)} \/ (f \notin Refs(op'.tx) /\ op'.req.kind # "ttl")
      <4>1. CASE f \in F
        BY <1>2, <2>v, <3>1, <4>1
      <4>2. CASE f \notin F
        <5>1. f \in (RuleFiles \cap op.wrote) \ (About(t) \cup op.stale)
          BY <1>2, <2>c, <3>1, <4>2
        <5>q. QED  BY <1>1, <1>2, <2>c, <3>1, <5>1 DEF Loads
      <4>q. QED  BY <4>1, <4>2
    <3>2. s # <<>> /\ Step' = s[1]
      <4>1. Step' = Head(s) /\ s # <<>>
        BY <1>1, <1>2, <2>c, <2>m DEF Step
      <4>q. QED  BY <2>c, <4>1
    <3>3. Step'.do = "rules" =>
            IF r.kind = "ttl" THEN \A f \in Step'.files : disk'.rules[f] = Absent
            ELSE ~ \E f \in Step'.files : f[1] = "rpz"
      <4>1. CASE r.kind = "ttl" /\ t[1] = Call("removeAll", s[1].files)
        <5>1. do = "removeAll" /\ F = s[1].files
          <6>1. Step = t[1]
            BY <2>c
          <6>2. Step = [do |-> "removeAll", files |-> s[1].files]
            BY <4>1, <6>1 DEF Call
          <6> HIDE DEF s
          <6>q. QED  BY <6>2
        <5>2. \A f \in F : disk'.rules[f] = Absent
          BY <2>f, <2>g, <5>1
        <5>q. QED  BY <3>2, <4>1, <5>1, <5>2
      <4>2. CASE r.kind # "ttl" /\ \A f \in s[1].files : f[1] = "redirect"
        BY <3>2, <4>2
      <4>q. QED  BY <1>1, <2>c, <2>m, <3>2, <4>1, <4>2
    <3>4. ~(Len(s) >= 2 /\ Step'.do = "reconfig" /\ s[2].do = "rules" /\ r.kind # "ttl")
      BY <1>1, <2>c, <2>m, <3>2
    <3>q. QED  BY <1>2, <3>1, <3>2, <3>3, <3>4 DEF Loads
  <2>q. QED  BY <2>1, <2>2, <2>3, <2>4, <2>5, <2>6 DEF HandlerOK
<1>q. QED  BY <1>3, <1>4, <1>o DEF Operation

\* named reads what has been written.
LEMMA ReconfigStep ==
    ASSUME IInv, ReconfigDNS
    PROVE  DiskOK' /\ RunOK' /\ HandlerOK' /\ KeeperOK'
<1>1. /\ Busy /\ op.todo # <<>> /\ Step.do = "reconfig"
      /\ UNCHANGED <<db, up, keeper, drift, disk>>
      /\ ReconfigDone
      /\ op' = [op EXCEPT !.todo = Tail(@)]
  BY DEF ReconfigDNS, Proceed
<1>o. op \in Operation
  BY <1>1, BusyType DEF IInv
<1>2. /\ op'.pc = op.pc /\ op'.req = op.req /\ op'.todo = Tail(op.todo) /\ op'.wrote = op.wrote
      /\ op'.stale = op.stale /\ op'.run = op.run /\ op'.tx = op.tx
  BY <1>1, <1>o DEF Operation
<1>b. Busy'
  BY <1>1, <1>2 DEF Busy
<1>3. CASE op.run = "together"
  BY <1>1, <1>2, <1>3, <1>b, TogetherCall
<1>4. CASE op.run = "alone"
  <2> DEFINE r == op.req
             t == op.todo
             s == Tail(op.todo)
             tx == op.tx
  <2>c. /\ r \in Requests /\ t \in Seq(Calling) /\ t # <<>> /\ Proper(r, t) /\ Ahead /\ Shows /\ Loads
        /\ Step = t[1] /\ Subject(Step) /\ About(t) = Step.files \cup About(s) /\ s \in Seq(Calling)
        /\ tx \in Tables /\ db \in Tables /\ disk \in Files
    BY <1>1, <1>4, AloneCall
  <2>f. Step.files = {}
    BY <1>1, <2>c DEF Subject
  <2>1. Ahead'
    <3>1. op'.wrote = op.wrote \cup Step.files /\ op'.tx = IF Step.do = "sql" THEN Executed(r, tx) ELSE tx
      BY <1>1, <1>2, <2>f
    <3>q. QED  BY <1>1, <1>2, <2>c, <3>1, AheadStep DEF IInv
  <2>u. Unsettled' = Unsettled
    BY <1>1, <1>2, <1>b DEF Unsettled
  <2>2. DiskOK' /\ RunOK'
    BY <1>1, <2>u, DiskKept, ReconfigRun DEF IInv
  <2>4. KeeperOK' /\ keeper'.pc = "sleep"
    BY <1>1, <1>2, <1>4, <1>b, AloneKeeper
  <2>5. Shows'
    BY <1>1, <1>2, <2>c, <2>f DEF Shows
  <2>d. up /\ Defined(disk)
    BY <1>1 DEF ReconfigDone
  <2>r. /\ run'.acls = disk.acls /\ run'.options = disk.options /\ run'.views = disk.views
        /\ run'.forwards = disk.forwards
        /\ \A f \in RuleFiles : run'.rules[f] =
            IF f \notin disk.refs THEN Absent ELSE IF run.rules[f] # Absent THEN run.rules[f] ELSE disk.rules[f]
    BY <1>1, <2>c DEF ReconfigDone, Read, Files
  <2>m. /\ s # <<>> /\ s[1].do = "rules" =>
                \/ r.kind = "ttl" /\ t[1] = Call("removeAll", s[1].files)
                \/ r.kind # "ttl" /\ t[1].do = "reconfig" /\ \A f \in s[1].files : f[1] = "rpz"
                \/ r.kind # "ttl" /\ t[1].do = "remove" /\ \A f \in s[1].files : f[1] = "redirect"
        /\ Len(s) >= 2 /\ s[1].do = "reconfig" /\ s[2].do = "rules" /\ r.kind # "ttl" => t[1].do = "noRPZ"
    BY <2>c, MadeCall
  <2>h. s # <<>> => Step' = s[1] /\ Len(t) >= 2 /\ t[2] = s[1]
    <3>1. Step' = Head(s)
      BY <1>2 DEF Step
    <3>2. Len(s) = Len(t) - 1 /\ \A i \in 1 .. Len(s) : s[i] = t[i + 1]
      BY <2>c, AboutTail
    <3>q. QED  BY <2>c, <3>1, <3>2
  <2>6. Loads'
    <3>1. ASSUME up', NEW f \in (RuleFiles \cap op'.wrote) \ (About(op'.todo) \cup op'.stale)
          PROVE  run'.rules[f] \in {Absent, RuleFile(op'.tx, f)} \/ (f \notin Refs(op'.tx) /\ op'.req.kind # "ttl")
      <4>1. f \in (RuleFiles \cap op.wrote) \ (About(t) \cup op.stale)
        BY <1>2, <2>c, <2>f, <3>1
      <4>2. run.rules[f] \in {Absent, RuleFile(tx, f)} \/ (f \notin Refs(tx) /\ r.kind # "ttl")
        BY <2>c, <2>d, <4>1 DEF Loads
      <4>3. disk.rules[f] = RuleFile(tx, f) \/ (f \notin Refs(tx) /\ r.kind # "ttl")
        BY <2>c, <4>1 DEF Shows
      <4>q. QED  BY <1>2, <2>r, <3>1, <4>2, <4>3
    <3>3. s # <<>> /\ Step'.do = "rules" =>
            r.kind # "ttl" /\ NoRpz(disk'.refs) /\ \A f \in RuleFiles : f[1] = "rpz" => run'.rules[f] = Absent
      <4> SUFFICES ASSUME s # <<>>, Step'.do = "rules"
                   PROVE  r.kind # "ttl" /\ NoRpz(disk'.refs) /\ \A f \in RuleFiles : f[1] = "rpz" => run'.rules[f] = Absent
        OBVIOUS
      <4>1. r.kind # "ttl"
        BY <1>1, <2>c, <2>h, <2>m DEF Call
      <4>2. NoRpz(disk.refs)
        BY <1>1, <2>c, <2>h, <4>1 DEF Loads
      <4>3. \A f \in RuleFiles : f[1] = "rpz" => f \notin disk.refs
        BY <4>2 DEF NoRpz
      <4>q. QED  BY <1>1, <2>r, <4>1, <4>2, <4>3
    <3>4. ~(Len(s) >= 2 /\ Step'.do = "reconfig" /\ s[2].do = "rules" /\ r.kind # "ttl")
      <4>1. Len(s) >= 2 => s # <<>>
        <5>1. \A x \in Seq(Calling) : Len(x) >= 2 => x # <<>>
          OBVIOUS
        <5>q. QED  BY <2>c, <5>1
      <4>q. QED  BY <1>1, <2>c, <2>h, <2>m, <4>1
    <3>5. Defined(disk')
      BY <1>1, <2>d
    <3>6. /\ run'.acls = disk'.acls /\ run'.options = disk'.options
          /\ run'.views = disk'.views /\ run'.forwards = disk'.forwards
          /\ \A f \in RuleFiles : IF f \in disk'.refs THEN run'.rules[f] = Absent => disk'.rules[f] = Absent
                                  ELSE run'.rules[f] = Absent
      BY <1>1, <2>r
    <3>q. QED  BY <1>2, <3>1, <3>3, <3>4, <3>5, <3>6 DEF Loads
  <2>q. QED  BY <2>1, <2>2, <2>4, <2>5, <2>6 DEF HandlerOK
<1>q. QED  BY <1>3, <1>4, <1>o DEF Operation

\* The tables that are committed are those the files show.
LEMMA CommitStep ==
    ASSUME IInv, Commit
    PROVE  DiskOK' /\ RunOK' /\ HandlerOK' /\ KeeperOK'
<1>1. /\ Busy /\ op.todo = <<>> /\ db' = op.tx
      /\ drift' = (IF op.run = "alone" THEN drift \ op.wrote ELSE drift)
                      \cup op.stale \cup Mistaken(op.req, db)
      /\ op' = Idle /\ UNCHANGED <<disk, up, run, keeper>>
  BY DEF Commit
<1>t. /\ TypeOK /\ op.req \in Requests /\ op.tx \in Tables /\ db \in Tables
      /\ op.stale \subseteq Parts /\ drift \subseteq Parts /\ op.run \in {"alone", "together"}
  BY <1>1, BusyType DEF IInv, TypeOK
<1>b. ~Busy' /\ Unsettled' = drift'
  BY <1>1 DEF Busy, Idle, Unsettled
<1>h. HandlerOK'
  BY <1>b DEF HandlerOK
<1>2. CASE op.run = "together"
  <2>1. drift = Parts
    BY <1>1, <1>2 DEF IInv, KeeperOK
  <2>2. drift' = Parts
    BY <1>1, <1>2, <1>t, <2>1, MistakenParts
  <2>3. KeeperOK'
    BY <1>1, <1>b, <2>2 DEF IInv, KeeperOK, Awake
  <2>q. QED  BY <1>h, <2>2, <2>3, AllDrifted
<1>3. CASE op.run = "alone"
  <2> DEFINE r == op.req
             tx == op.tx
  <2>c. keeper.pc = "sleep" /\ Ahead /\ Shows /\ Loads
    BY <1>1, <1>3 DEF IInv, HandlerOK
  <2>k. KeeperOK'
    BY <1>1, <1>b, <2>c DEF KeeperOK, Awake, IInv
  <2>a. About(op.todo) = {}
    BY <1>1 DEF About
  <2>w. op.wrote = About(Calls(r))
    BY <2>a, <2>c DEF Ahead
  <2>d. drift' = (drift \ op.wrote) \cup op.stale \cup Mistaken(r, db)
    BY <1>1, <1>3
  <2>1. CASE Calls(r) = <<>>
    <3>1. tx = db /\ op.wrote = {}
      BY <1>1, <2>1, <2>c DEF Ahead
    <3>2. db' = db /\ Unsettled \subseteq Unsettled'
      BY <1>1, <1>b, <2>d, <3>1 DEF Unsettled
    <3>3. DiskOK' /\ RunOK'
      BY <1>1, <3>2, DiskKept, RunKept DEF IInv
    <3>q. QED  BY <1>h, <2>k, <3>3
  <2>2. CASE Calls(r) # <<>>
    <3>1. tx = Executed(r, db)
      BY <1>1, <2>2, <2>c DEF Ahead
    <3>n. \A f : f \notin drift' /\ f \notin op.wrote => f \notin Unsettled
      BY <2>d DEF Unsettled
    <3>2. AclFile \notin drift' => disk.acls = tx.acls
      <4>1. AclFile \notin op.wrote => tx.acls = db.acls
        BY <1>t, <2>w, <3>1, ExecutedElsewhere
      <4>q. QED  BY <2>c, <3>n, <4>1 DEF Shows, IInv, DiskOK
    <3>3. OptionsFile \notin drift' => disk.options = tx.options
      <4>1. OptionsFile \notin op.wrote => tx.options = db.options
        BY <1>t, <2>w, <3>1, ExecutedElsewhere
      <4>q. QED  BY <2>c, <3>n, <4>1 DEF Shows, IInv, DiskOK
    <3>e. \A f \in RuleFiles : f \notin op.wrote \cup Mistaken(r, db) =>
            RuleFile(tx, f) = RuleFile(db, f) /\ (f \in Refs(tx) <=> f \in Refs(db))
      <4>1. \A f \in RuleFiles : f \notin op.wrote \cup Mistaken(r, db) => RuleFile(tx, f) = RuleFile(db, f)
        BY <1>t, <2>w, <3>1, ExecutedRules
      <4>q. QED  BY <4>1 DEF Refs
    <3>4. ViewFile \notin drift' =>
            disk.views = tx.views /\ disk.forwards = tx.forwards /\ disk.refs = Refs(tx)
      <4>1. CASE ViewFile \in op.wrote
        BY <2>a, <2>c, <4>1 DEF Shows
      <4>2. CASE ViewFile \notin op.wrote
        <5>1. tx.views = db.views /\ tx.forwards = db.forwards
          BY <1>t, <2>w, <3>1, <4>2, ExecutedElsewhere
        <5>2. r.kind \in NoView
          BY <1>t, <2>2, <2>w, <4>2, AboutCalls
        <5>3. Refs(tx) = Refs(db)
          <6>1. CASE r.kind = "ttl"
            BY <1>t, <3>1, <6>1, ExecutedRules
          <6>2. CASE r.kind # "ttl"
            <7>1. RuleFiles \cap op.wrote = {}
              BY <1>t, <2>w, <5>2, <6>2, AboutCalls
            <7>2. Mistaken(r, db) = {}
              BY <5>2 DEF Mistaken, NoView
            <7>3. Refs(tx) \subseteq RuleFiles /\ Refs(db) \subseteq RuleFiles
              BY DEF Refs
            <7>q. QED  BY <3>e, <7>1, <7>2, <7>3
          <6>q. QED  BY <6>1, <6>2
        <5>4. ViewFile \notin drift' => ViewFile \notin Unsettled
          BY <3>n, <4>2
        <5>q. QED  BY <5>1, <5>3, <5>4 DEF IInv, DiskOK
      <4>q. QED  BY <4>1, <4>2
    <3>5. ASSUME NEW f \in RuleFiles \cap op.wrote, f \notin Refs(tx), r.kind # "ttl"
          PROVE  f \notin disk.refs
      <4>1. r.kind \notin NoView
        BY <1>t, <2>w, <3>5, AboutCalls
      <4>2. ViewFile \in op.wrote
        BY <1>t, <2>2, <2>w, <4>1, AboutCalls
      <4>q. QED  BY <2>a, <2>c, <3>5, <4>2 DEF Shows
    <3>6. ASSUME NEW f \in RuleFiles \ drift'
          PROVE  disk.rules[f] = RuleFile(tx, f) \/ (f \notin Refs(tx) /\ f \notin disk.refs)
      <4>1. CASE f \in op.wrote
        <5>1. disk.rules[f] = RuleFile(tx, f) \/ (f \notin Refs(tx) /\ r.kind # "ttl")
          BY <2>a, <2>c, <3>6, <4>1 DEF Shows
        <5>q. QED  BY <3>5, <3>6, <4>1, <5>1
      <4>2. CASE f \notin op.wrote
        <5>1. disk.rules[f] = RuleFile(db, f) \/ (f \notin Refs(db) /\ f \notin disk.refs)
          BY <3>6, <3>n, <4>2 DEF IInv, DiskOK
        <5>2. f \notin Mistaken(r, db)
          BY <2>d, <3>6
        <5>q. QED  BY <3>6, <3>e, <4>2, <5>1, <5>2
      <4>q. QED  BY <4>1, <4>2
    <3>r. Refs(db)' = Refs(tx) /\ \A f : RuleFile(db, f)' = RuleFile(tx, f)
      BY <1>1 DEF Refs, RuleFile
    <3>7. DiskOK'
      BY <1>1, <1>b, <3>2, <3>3, <3>4, <3>6, <3>r DEF DiskOK
    <3>l. /\ up => /\ run.acls = disk.acls /\ run.options = disk.options
                   /\ run.views = disk.views /\ run.forwards = disk.forwards
                   /\ \A f \in RuleFiles :
                       IF f \in disk.refs THEN run.rules[f] = Absent => disk.rules[f] = Absent
                       ELSE run.rules[f] = Absent
      BY <1>1, <2>2, <2>c DEF Loads
    <3>8. ASSUME up, NEW f \in RuleFiles \ drift'
          PROVE  run.rules[f] \in {Absent, RuleFile(tx, f)}
      <4>1. CASE f \in op.wrote
        <5>1. f \notin op.stale
          BY <2>d, <3>8
        <5>2. run.rules[f] \in {Absent, RuleFile(tx, f)} \/ (f \notin Refs(tx) /\ r.kind # "ttl")
          BY <2>a, <2>c, <3>8, <4>1, <5>1 DEF Loads
        <5>q. QED  BY <3>5, <3>8, <3>l, <4>1, <5>2
      <4>2. CASE f \notin op.wrote
        <5>1. run.rules[f] \in {Absent, RuleFile(db, f)}
          BY <3>8, <3>n, <4>2 DEF IInv, RunOK
        <5>2. f \notin Mistaken(r, db)
          BY <2>d, <3>8
        <5>q. QED  BY <3>8, <3>e, <4>2, <5>1, <5>2
      <4>q. QED  BY <4>1, <4>2
    <3>9. ASSUME up, NEW f \in RuleFiles \ drift', ViewFile \notin drift'
          PROVE  run.rules[f] = RuleFile(tx, f)
      <4>1. CASE f \in Refs(tx)
        <5>1. RuleFile(tx, f) # Absent
          BY <4>1 DEF Refs
        <5>2. disk.rules[f] = RuleFile(tx, f)
          BY <3>6, <3>9, <4>1
        <5>q. QED  BY <3>4, <3>8, <3>9, <3>l, <4>1, <5>1, <5>2
      <4>2. CASE f \notin Refs(tx)
        <5>1. RuleFile(tx, f) = Absent
          BY <3>9, <4>2 DEF Refs
        <5>q. QED  BY <3>4, <3>9, <3>l, <4>2, <5>1
      <4>q. QED  BY <4>1, <4>2
    <3>10. RunsAsCommitted'
      BY <1>1, <1>b, <3>2, <3>3, <3>4, <3>l, <3>9, <3>r DEF RunsAsCommitted
    <3>11. RunOK'
      BY <1>1, <1>b, <3>8, <3>10, <3>r DEF RunOK
    <3>q. QED  BY <1>h, <2>k, <3>7, <3>11
  <2>q. QED  BY <2>1, <2>2
<1>q. QED  BY <1>2, <1>3, <1>t

\* What a request that fails may have changed is unsettled ever after.
LEMMA FailsStep ==
    ASSUME IInv, Fails
    PROVE  DiskOK' /\ RunOK' /\ HandlerOK' /\ KeeperOK'
<1>1. /\ Busy /\ op' = Idle /\ UNCHANGED <<db, up, keeper>>
      /\ drift' = drift \cup op.wrote \cup op.stale \cup (IF op.todo = <<>> THEN {} ELSE Step.files)
      /\ \/ UNCHANGED <<disk, run>>
         \/ op.todo # <<>> /\ Removed(Step.files) /\ UNCHANGED run
         \/ ReconfigDone /\ UNCHANGED disk
  BY DEF Fails
<1>b. ~Busy' /\ Unsettled' = drift'
  BY <1>1 DEF Busy, Idle, Unsettled
<1>u. Unsettled \subseteq Unsettled'
  BY <1>1, <1>b DEF Unsettled
<1>t. TypeOK /\ disk \in Files
  BY DEF IInv, TypeOK
<1>h. HandlerOK'
  BY <1>b DEF HandlerOK
<1>k. KeeperOK'
  <2>1. Awake => keeper.run # "alone"
    BY <1>1 DEF IInv, KeeperOK
  <2>2. keeper.run \in {"alone", "together"}
    BY <1>t DEF TypeOK
  <2>3. Awake => drift = Parts
    BY <2>1, <2>2 DEF IInv, KeeperOK
  <2>4. drift = Parts => drift' = Parts
    <3>1. op.wrote \subseteq Parts /\ op.stale \subseteq Parts /\ (op.todo # <<>> => Step.files \subseteq Parts)
      BY <1>1, <1>t, BusyType
    <3>q. QED  BY <1>1, <3>1
  <2>q. QED  BY <1>1, <1>b, <2>1, <2>3, <2>4 DEF KeeperOK, Awake
<1>2. CASE UNCHANGED <<disk, run>>
  BY <1>1, <1>2, <1>h, <1>k, <1>u, DiskKept, RunKept DEF IInv
<1>3. CASE op.todo # <<>> /\ Removed(Step.files) /\ UNCHANGED run
  <2>1. /\ disk'.acls = disk.acls /\ disk'.options = disk.options /\ disk'.views = disk.views
        /\ disk'.forwards = disk.forwards /\ disk'.refs = disk.refs
        /\ \A f \in RuleFiles \ Step.files : disk'.rules[f] = disk.rules[f]
    BY <1>3, <1>t DEF Removed, RemovedRules, Files
  <2>2. Step.files \subseteq Unsettled'
    BY <1>1, <1>3, <1>b
  <2>3. DiskOK'
    BY <1>1, <1>u, <2>1, <2>2 DEF IInv, DiskOK
  <2>q. QED  BY <1>1, <1>3, <1>h, <1>k, <1>u, <2>3, RunKept DEF IInv
<1>4. CASE ReconfigDone /\ UNCHANGED disk
  BY <1>1, <1>4, <1>h, <1>k, <1>t, <1>u, DiskKept, ReconfigRun DEF IInv
<1>q. QED  BY <1>1, <1>2, <1>3, <1>4

-----------------------------------------------------------------------------
(* Where a handler begins.                                                 *)

LEMMA ReceiveStep ==
    ASSUME IInv, NEW r \in Requests, Receive(r)
    PROVE  DiskOK' /\ RunOK' /\ HandlerOK' /\ KeeperOK'
<1>1. /\ ~Busy /\ keeper.by = "keeper"
      /\ op' = [pc |-> "work", req |-> r, todo |-> Calls(r), tx |-> db,
                wrote |-> {}, stale |-> {}, run |-> Together(keeper.pc # "sleep")]
      /\ keeper' = IF keeper.pc = "sleep" THEN keeper ELSE [keeper EXCEPT !.run = "together"]
      /\ drift' = IF keeper.pc # "sleep" THEN Parts ELSE drift
      /\ UNCHANGED <<db, disk, up, run>>
  BY DEF Receive, Overlap
<1>b. Busy'
  BY <1>1 DEF Busy
<1>t. keeper \in [pc : KeeperSteps, by : {"keeper", "boot"}, run : {"alone", "together"}]
  BY DEF IInv, TypeOK
<1>2. CASE keeper.pc # "sleep"
  <2>1. drift' = Parts /\ op'.run = "together" /\ keeper'.by = "keeper" /\ keeper'.run = "together"
    BY <1>1, <1>2, <1>t DEF Together
  <2>q. QED  BY <2>1, AllDrifted DEF HandlerOK, KeeperOK
<1>3. CASE keeper.pc = "sleep"
  <2>1. keeper' = keeper /\ drift' = drift /\ Unsettled' = Unsettled
    BY <1>1, <1>3, <1>b DEF Unsettled
  <2>2. DiskOK' /\ RunOK'
    BY <1>1, <2>1, DiskKept, RunKept DEF IInv
  <2>3. KeeperOK'
    <3>1. keeper'.by = "keeper" /\ ~Awake' /\ op'.run = "alone"
      BY <1>1, <1>3, <2>1 DEF Awake, Together
    <3>q. QED  BY <3>1 DEF KeeperOK
  <2>4. /\ op'.req = r /\ op'.todo = Calls(r) /\ op'.tx = db' /\ op'.wrote = {} /\ op'.stale = {}
        /\ Step' = Head(Calls(r))
    BY <1>1 DEF Step
  <2>5. Proper(r, Calls(r)) /\ Calls(r) \in Seq(Calling)
    BY CallsProper, CallsType
  <2>6. Calls(r) # <<>> => Step'.do = "sql"
    <3>1. Calls(r) # <<>> => Head(Calls(r)) = Calls(r)[1] /\ Calls(r)[1] = Call("sql", {})
      BY <2>5, AboutTail, AboutCalls
    <3>q. QED  BY <2>4, <3>1 DEF Call
  <2>7. Calls(op.req)' = Calls(r)
    BY <2>4
  <2>8. Ahead'
    BY <2>4, <2>5, <2>6, <2>7 DEF Ahead
  <2>9. Shows'
    BY <2>4 DEF Shows
  <2>10. Len(Calls(r)) >= 2 => Calls(r) # <<>>
    <3>1. \A x \in Seq(Calling) : Len(x) >= 2 => x # <<>>
      OBVIOUS
    <3>q. QED  BY <2>5, <3>1
  <2>11. Loads'
    BY <2>4, <2>6, <2>7, <2>10 DEF Loads
  <2>q. QED  BY <1>3, <2>1, <2>2, <2>3, <2>8, <2>9, <2>11 DEF HandlerOK
<1>q. QED  BY <1>2, <1>3

-----------------------------------------------------------------------------
(* The keeper.                                                             *)

LEMMA KeeperType ==
    ASSUME IInv
    PROVE  /\ keeper.pc \in KeeperSteps /\ keeper.by \in {"keeper", "boot"}
           /\ keeper.run \in {"alone", "together"}
           /\ keeper \in [pc : KeeperSteps, by : {"keeper", "boot"}, run : {"alone", "together"}]
           /\ Busy => op \in Operation /\ op.run \in {"alone", "together"}
           /\ db \in Tables /\ disk \in Files /\ run \in Files /\ drift \subseteq Parts
  BY BusyType DEF IInv, TypeOK

\* A keeper that is awake is alone, or nothing is promised.
LEMMA AwakeKeeper ==
    ASSUME IInv, Awake
    PROVE  /\ Busy => op.run = "together"
           /\ keeper.run = "together" => drift = Parts
           /\ keeper.run = "alone" => ~Busy /\ Progress
  BY KeeperType DEF IInv, HandlerOK, KeeperOK, Awake

LEMMA KeeperWakesStep ==
    ASSUME IInv, KeeperWakes
    PROVE  DiskOK' /\ RunOK' /\ HandlerOK' /\ KeeperOK'
<1>1. /\ keeper' = [pc |-> "defaults", by |-> "keeper", run |-> Together(Busy)]
      /\ op' = IF Busy THEN [op EXCEPT !.run = "together"] ELSE op
      /\ drift' = IF Busy THEN Parts ELSE drift
      /\ UNCHANGED <<db, disk, up, run>>
  BY DEF KeeperWakes, Overlap
<1>2. CASE Busy
  <2>1. drift' = Parts /\ op'.run = "together" /\ keeper'.by = "keeper" /\ keeper'.run = "together"
    BY <1>1, <1>2, KeeperType DEF Together, Operation
  <2>q. QED  BY <2>1, AllDrifted DEF HandlerOK, KeeperOK
<1>3. CASE ~Busy
  <2>1. ~Busy' /\ Unsettled' = Unsettled
    BY <1>1, <1>3 DEF Unsettled, Busy
  <2>2. DiskOK' /\ RunOK'
    BY <1>1, <2>1, DiskKept, RunKept DEF IInv
  <2>3. keeper'.pc = "defaults" /\ keeper'.run = "alone" /\ keeper'.by = "keeper"
    BY <1>1, <1>3 DEF Together
  <2>4. Progress'
    BY <2>3 DEF Progress
  <2>q. QED  BY <2>1, <2>2, <2>3, <2>4 DEF HandlerOK, KeeperOK
<1>q. QED  BY <1>2, <1>3

\* While both work nothing is promised, whatever the keeper does.
LEMMA KeeperTogether ==
    ASSUME IInv, Awake, keeper.run = "together", drift' = Parts, Busy' => Busy /\ op'.run = op.run,
           keeper'.by = "boot" => keeper.by = "boot", Awake' => keeper'.run = "together"
    PROVE  DiskOK' /\ RunOK' /\ HandlerOK' /\ KeeperOK'
<1>1. HandlerOK'
  BY AwakeKeeper DEF HandlerOK
<1>2. KeeperOK'
  BY DEF IInv, KeeperOK
<1>q. QED  BY <1>1, <1>2, AllDrifted

\* The rows that a start puts in are in no file yet.
LEMMA DefaultsStep ==
    ASSUME IInv, Defaults
    PROVE  DiskOK' /\ RunOK' /\ HandlerOK' /\ KeeperOK'
<1> DEFINE A == WithDefaults(db)["acls"] \ db["acls"]
           V == WithDefaults(db)["views"] \ db["views"]
           With(d) == [d EXCEPT !.acls = @ \cup A, !.views = @ \cup V]
<1>1. /\ keeper.pc = "defaults"
      /\ db' = With(db)
      /\ op' = IF Busy THEN [op EXCEPT !.tx = With(@)] ELSE op
      /\ drift' = drift \cup (IF A # {} THEN {AclFile} ELSE {}) \cup (IF V # {} THEN {ViewFile} ELSE {})
      /\ keeper' = [keeper EXCEPT !.pc = "options"]
      /\ UNCHANGED <<disk, up, run>>
  BY DEF Defaults
<1> HIDE DEF A, V
<1>2. /\ keeper'.pc = "options" /\ keeper'.by = keeper.by /\ keeper'.run = keeper.run
      /\ Awake
  BY <1>1, KeeperType DEF Awake
<1>3. Busy' <=> Busy
  BY <1>1, KeeperType DEF Busy, Operation
<1>4. Busy => op'.run = op.run
  BY <1>1, KeeperType DEF Operation
<1>5. CASE keeper.run = "together"
  <2>1. drift = Parts
    BY <1>2, <1>5, AwakeKeeper
  <2>2. drift' = Parts
    BY <1>1, <2>1 DEF Parts
  <2>q. QED  BY <1>2, <1>3, <1>4, <1>5, <2>2, KeeperTogether
<1>6. CASE keeper.run = "alone"
  <2>1. ~Busy /\ ~Busy'
    BY <1>2, <1>3, <1>6, AwakeKeeper
  <2>u. Unsettled = drift /\ Unsettled' = drift'
    BY <2>1 DEF Unsettled
  <2>2. /\ db'.rules = db.rules /\ db'.forwards = db.forwards /\ db'.options = db.options
        /\ AclFile \notin drift' => db'.acls = db.acls
        /\ ViewFile \notin drift' => db'.views = db.views
        /\ drift \subseteq drift'
    <3>1. db \in [acls : SUBSET Acls, options : Values, views : SUBSET (Views \X Acls),
                  forwards : SUBSET Forward, rules : SUBSET Rule]
      BY KeeperType DEF Tables
    <3>2. /\ db'.rules = db.rules /\ db'.forwards = db.forwards /\ db'.options = db.options
          /\ db'.acls = db.acls \cup A /\ db'.views = db.views \cup V
      BY <1>1, <3>1
    <3>q. QED  BY <1>1, <3>2
  <2>3. Refs(db)' = Refs(db) /\ \A f : RuleFile(db, f)' = RuleFile(db, f)
    BY <2>2 DEF Refs, RuleFile
  <2>4. DiskOK'
    BY <1>1, <2>u, <2>2, <2>3 DEF IInv, DiskOK
  <2>5. RunOK'
    BY <1>1, <2>u, <2>2, <2>3 DEF IInv, RunOK, RunsAsCommitted
  <2>6. Progress'
    BY <1>2 DEF Progress
  <2>7. HandlerOK' /\ KeeperOK'
    BY <1>2, <1>6, <2>1, <2>6 DEF HandlerOK, KeeperOK
  <2>q. QED  BY <2>4, <2>5, <2>7
<1>q. QED  BY <1>5, <1>6, KeeperType

\* initFiles: every file shows the tables once it has been written.
LEMMA InitFileStep ==
    ASSUME IInv, InitFile
    PROVE  DiskOK' /\ RunOK' /\ HandlerOK' /\ KeeperOK'
<1> DEFINE pc == keeper.pc
           F == {keeper.pc} \X Views
<1>1. /\ pc \in {"options", "view", "acl", "rpz", "redirect"}
      /\ disk' = IF pc \in Types THEN WrittenRules(db, F, RemovedRules(F, disk)) ELSE Shown(pc, db, {}, disk)
      /\ keeper' = [keeper EXCEPT !.pc = NextFile(@)]
      /\ UNCHANGED <<db, up, run, op, drift>>
  BY DEF InitFile
<1>2. /\ keeper'.pc = NextFile(pc) /\ keeper'.by = keeper.by /\ keeper'.run = keeper.run
      /\ Awake
  BY <1>1, KeeperType DEF Awake
<1>3. Busy' <=> Busy
  BY <1>1 DEF Busy
<1>5. CASE keeper.run = "together"
  BY <1>1, <1>2, <1>3, <1>5, AwakeKeeper, KeeperTogether
<1>6. CASE keeper.run = "alone"
  <2>1. ~Busy /\ ~Busy' /\ Progress
    BY <1>2, <1>3, <1>6, AwakeKeeper
  <2>u. Unsettled = drift /\ Unsettled' = drift
    BY <1>1, <2>1 DEF Unsettled
  <2>t. db \in Tables /\ disk \in Files
    BY KeeperType
  <2>2. CASE pc \notin Types
    <3>1. disk' = Shown(pc, db, {}, disk)
      BY <1>1, <2>2
    <3>2. /\ disk'.acls = IF pc = "acl" THEN db.acls ELSE disk.acls
          /\ disk'.options = IF pc = "options" THEN db.options ELSE disk.options
          /\ disk'.views = IF pc = "view" THEN db.views ELSE disk.views
          /\ disk'.forwards = IF pc = "view" THEN db.forwards ELSE disk.forwards
          /\ disk'.refs = IF pc = "view" THEN Refs(db) ELSE disk.refs
          /\ \A f \in RuleFiles : disk'.rules[f] = disk.rules[f]
      BY <1>1, <2>t, <3>1, ShownFields
    <3>3. pc \in {"options", "view", "acl"}
      BY <1>1, <2>2 DEF Types
    <3>4. DiskOK'
      BY <1>1, <2>u, <3>2 DEF IInv, DiskOK
    <3>5. Progress'
      BY <1>1, <1>2, <2>1, <3>2, <3>3 DEF Progress, NextFile
    <3>q. QED  BY <3>4, <3>5, <1>1, <1>2, <1>6, <2>1, <2>u, RunKept DEF IInv, HandlerOK, KeeperOK
  <2>3. CASE pc \in Types
    <3>1. disk' = WrittenRules(db, F, RemovedRules(F, disk))
      BY <1>1, <2>3
    <3>2. /\ disk'.acls = disk.acls /\ disk'.options = disk.options /\ disk'.views = disk.views
          /\ disk'.forwards = disk.forwards /\ disk'.refs = disk.refs
          /\ \A f \in RuleFiles : disk'.rules[f] =
                IF f \in F \cap Refs(db) THEN RuleFile(db, f) ELSE IF f \in F THEN Absent ELSE disk.rules[f]
      BY <2>t, <3>1 DEF WrittenRules, RemovedRules, Files
    <3>3. \A f \in RuleFiles \ Refs(db) : RuleFile(db, f) = Absent
      BY DEF Refs
    <3>4. \A f \in RuleFiles : disk'.rules[f] = IF f[1] = pc THEN RuleFile(db, f) ELSE disk.rules[f]
      <4>1. \A f \in RuleFiles : f \in F <=> f[1] = pc
        BY DEF RuleFiles
      <4> HIDE DEF F
      <4>q. QED  BY <3>2, <3>3, <4>1
    <3>5. DiskOK'
      BY <1>1, <2>u, <3>2, <3>4 DEF IInv, DiskOK
    <3>6. pc = "rpz" \/ pc = "redirect"
      BY <2>3 DEF Types
    <3>7. \A f \in RuleFiles : f[1] = "rpz" \/ f[1] = "redirect"
      BY DEF RuleFiles, Types
    <3>8. Progress'
      BY ZenonT(30), <1>1, <1>2, <2>1, <3>2, <3>4, <3>6, <3>7 DEF Progress, NextFile
    <3>q. QED  BY <3>5, <3>8, <1>1, <1>2, <1>6, <2>1, <2>u, RunKept DEF IInv, HandlerOK, KeeperOK
  <2>q. QED  BY <2>2, <2>3
<1>q. QED  BY <1>5, <1>6, KeeperType

\* A start of the keeper alone settles every file.
LEMMA StartStep ==
    ASSUME IInv, Start
    PROVE  DiskOK' /\ RunOK' /\ HandlerOK' /\ KeeperOK'
<1>1. /\ keeper.pc = "start" /\ Awake
      /\ run' = Read(disk, Nothing)
      /\ keeper'.pc = "sleep" /\ keeper'.by = "keeper" /\ ~Awake'
      /\ drift' = IF keeper.run = "alone" THEN {} ELSE drift
      /\ UNCHANGED <<db, disk, op>>
  BY DEF Start, Asleep, Awake
<1>2. Busy' <=> Busy
  BY <1>1 DEF Busy
<1>3. CASE keeper.run = "together"
  <2>1. drift' = Parts
    BY <1>1, <1>3, AwakeKeeper
  <2>q. QED  BY <1>1, <1>2, <1>3, <2>1, KeeperTogether
<1>4. CASE keeper.run = "alone"
  <2>1. ~Busy /\ ~Busy' /\ Progress
    BY <1>1, <1>2, <1>4, AwakeKeeper
  <2>2. /\ disk.options = db.options /\ disk.views = db.views /\ disk.forwards = db.forwards
        /\ disk.refs = Refs(db) /\ disk.acls = db.acls
        /\ \A f \in RuleFiles : disk.rules[f] = RuleFile(db, f)
    BY <1>1, <2>1 DEF Progress
  <2>3. DiskOK'
    BY <1>1, <2>2 DEF DiskOK
  <2>4. /\ run'.acls = disk.acls /\ run'.options = disk.options /\ run'.views = disk.views
        /\ run'.forwards = disk.forwards
        /\ \A f \in RuleFiles : run'.rules[f] = IF f \notin disk.refs THEN Absent ELSE disk.rules[f]
    BY <1>1, KeeperType DEF Read, Files, Nothing
  <2>5. \A f \in RuleFiles : run'.rules[f] = RuleFile(db, f)
    BY <2>2, <2>4 DEF Refs
  <2>6. RunOK'
    BY <1>1, <2>2, <2>4, <2>5 DEF RunOK, RunsAsCommitted
  <2>q. QED  BY <1>1, <2>1, <2>3, <2>6 DEF HandlerOK, KeeperOK
<1>q. QED  BY <1>3, <1>4, KeeperType

LEMMA KeeperFailsStep ==
    ASSUME IInv, KeeperFails
    PROVE  DiskOK' /\ RunOK' /\ HandlerOK' /\ KeeperOK'
<1> DEFINE F == {keeper.pc} \X Views
<1>1. /\ Awake
      /\ keeper' = IF keeper.by = "boot" /\ keeper.pc # "start" THEN Exited ELSE Asleep
      /\ \/ UNCHANGED <<disk, drift>>
         \/ F \subseteq RuleFiles /\ Removed(F) /\ drift' = drift \cup F
      /\ UNCHANGED <<db, up, run, op>>
  BY DEF KeeperFails, Awake, RuleFiles
<1>2. ~Awake' /\ (keeper'.by = "boot" => keeper.by = "boot")
  BY <1>1 DEF Awake, Exited, Asleep
<1>3. Busy' <=> Busy
  BY <1>1 DEF Busy
<1>4. CASE keeper.run = "together"
  <2>1. drift' = Parts
    BY <1>1, <1>4, AwakeKeeper DEF Parts
  <2>q. QED  BY <1>1, <1>2, <1>3, <1>4, <2>1, KeeperTogether
<1>5. CASE keeper.run = "alone"
  <2>1. ~Busy /\ ~Busy'
    BY <1>1, <1>3, <1>5, AwakeKeeper
  <2>u. Unsettled = drift /\ Unsettled' = drift' /\ Unsettled \subseteq Unsettled'
    BY <1>1, <2>1 DEF Unsettled
  <2>2. DiskOK'
    <3>1. CASE UNCHANGED <<disk, drift>>
      BY <1>1, <2>u, <3>1, DiskKept DEF IInv
    <3>2. CASE F \subseteq RuleFiles /\ Removed(F) /\ drift' = drift \cup F
      <4>1. /\ disk'.acls = disk.acls /\ disk'.options = disk.options /\ disk'.views = disk.views
            /\ disk'.forwards = disk.forwards /\ disk'.refs = disk.refs
            /\ \A f \in RuleFiles \ F : disk'.rules[f] = disk.rules[f]
        BY <3>2, KeeperType DEF Removed, RemovedRules, Files
      <4> HIDE DEF F
      <4>q. QED  BY <1>1, <2>u, <3>2, <4>1 DEF IInv, DiskOK
    <3>q. QED  BY <1>1, <3>1, <3>2
  <2>3. RunOK'
    BY <1>1, <2>u, RunKept DEF IInv
  <2>q. QED  BY <1>2, <2>1, <2>2, <2>3 DEF HandlerOK, KeeperOK
<1>q. QED  BY <1>4, <1>5, KeeperType

-----------------------------------------------------------------------------
(* The environment.                                                        *)

LEMMA NamedDiesStep ==
    ASSUME IInv, NamedDies
    PROVE  DiskOK' /\ RunOK' /\ HandlerOK' /\ KeeperOK'
<1>1. up' = FALSE /\ UNCHANGED <<db, disk, run, op, keeper, drift>>
  BY DEF NamedDies
<1>2. Unsettled' = Unsettled /\ (Busy' <=> Busy) /\ Step' = Step
  BY <1>1 DEF Unsettled, Busy, Step
<1>3. DiskOK' /\ RunOK'
  BY <1>1, <1>2, DiskKept, RunKept DEF IInv
<1>4. Ahead => Ahead'
  BY <1>1 DEF Ahead, Step
<1>5. Shows => Shows'
  BY <1>1 DEF Shows
<1>6. Loads => Loads'
  BY <1>1 DEF Loads, Step
<1>7. HandlerOK'
  BY <1>1, <1>2, <1>4, <1>5, <1>6 DEF IInv, HandlerOK
<1>8. Progress => Progress'
  BY <1>1 DEF Progress
<1>9. KeeperOK'
  BY <1>1, <1>2, <1>8 DEF IInv, KeeperOK, Awake
<1>q. QED  BY <1>3, <1>7, <1>9

LEMMA AgentRestartsStep ==
    ASSUME IInv, AgentRestarts
    PROVE  DiskOK' /\ RunOK' /\ HandlerOK' /\ KeeperOK'
<1>1. /\ drift' = IF Busy THEN drift \cup op.wrote \cup op.stale ELSE drift
      /\ op' = Idle /\ keeper' = Booting /\ UNCHANGED <<db, disk, up, run>>
  BY DEF AgentRestarts
<1>2. ~Busy' /\ Unsettled \subseteq Unsettled'
  BY <1>1 DEF Busy, Idle, Unsettled
<1>3. DiskOK' /\ RunOK'
  BY <1>1, <1>2, DiskKept, RunKept DEF IInv
<1>4. keeper'.pc = "defaults" /\ keeper'.run = "alone"
  BY <1>1 DEF Booting
<1>5. Progress'
  BY <1>4 DEF Progress
<1>q. QED  BY <1>2, <1>3, <1>4, <1>5 DEF HandlerOK, KeeperOK

-----------------------------------------------------------------------------
(* The theorems.                                                           *)

LEMMA Initially == Init => IInv
<1> SUFFICES ASSUME Init PROVE IInv
  OBVIOUS
<1>1. /\ db = InitialDb /\ disk = FilesOf(InitialDb) /\ run = FilesOf(InitialDb)
      /\ op = Idle /\ keeper = Booting /\ drift = {}
  BY DEF Init
<1>2. ~Busy /\ keeper.pc = "defaults" /\ keeper.run = "alone"
  BY <1>1 DEF Busy, Idle, Booting
<1>3. DiskOK
  BY <1>1 DEF DiskOK, FilesOf
<1>4. RunOK
  BY <1>1 DEF RunOK, RunsAsCommitted, FilesOf
<1>5. Progress
  BY <1>2 DEF Progress
<1>q. QED  BY <1>2, <1>3, <1>4, <1>5, TypeInit DEF IInv, HandlerOK, KeeperOK

LEMMA Inductive == IInv /\ [Next]_vars => IInv'
<1> SUFFICES ASSUME IInv, [Next]_vars PROVE IInv'
  OBVIOUS
<1>t. TypeOK'
  BY TypeStep DEF IInv
<1> SUFFICES DiskOK' /\ RunOK' /\ HandlerOK' /\ KeeperOK'
  BY <1>t DEF IInv
<1>1. CASE \E r \in Requests : Receive(r)
  BY <1>1, ReceiveStep
<1>2. CASE Statement
  BY <1>2, StatementStep
<1>3. CASE Write
  BY <1>3, WriteStep
<1>4. CASE RemoveFiles
  BY <1>4, RemoveFilesStep
<1>5. CASE ReconfigDNS
  BY <1>5, ReconfigStep
<1>6. CASE Commit
  BY <1>6, CommitStep
<1>7. CASE Fails
  BY <1>7, FailsStep
<1>8. CASE KeeperWakes
  BY <1>8, KeeperWakesStep
<1>9. CASE Defaults
  BY <1>9, DefaultsStep
<1>10. CASE InitFile
  BY <1>10, InitFileStep
<1>11. CASE Start
  BY <1>11, StartStep
<1>12. CASE KeeperFails
  BY <1>12, KeeperFailsStep
<1>13. CASE NamedDies
  BY <1>13, NamedDiesStep
<1>14. CASE AgentRestarts
  BY <1>14, AgentRestartsStep
<1>15. CASE UNCHANGED vars
  <2>1. UNCHANGED <<db, disk, up, run, op, keeper, drift>>
    BY <1>15 DEF vars
  <2>q. QED
    BY <2>1 DEF IInv, DiskOK, RunOK, RunsAsCommitted, HandlerOK, KeeperOK, Progress, Awake, Unsettled, Busy,
                Ahead, Shows, Loads, Step
<1>q. QED
  BY <1>1, <1>2, <1>3, <1>4, <1>5, <1>6, <1>7, <1>8, <1>9, <1>10, <1>11, <1>12, <1>13, <1>14, <1>15 DEF Next

\* A running named goes by the committed tables, in every file that no failed
\* request has left different.
THEOREM CommittedRun == Spec => []RunsAsCommitted
<1>1. IInv => RunsAsCommitted
  BY DEF IInv, RunOK
<1>q. QED  BY <1>1, Initially, Inductive, PTL DEF Spec

\* What a reconfiguration is about to read is there.
LEMMA ReferencedThere == IInv => ReferencedExist
<1> SUFFICES ASSUME IInv, Busy, op.todo # <<>>, Step.do = "reconfig", ViewFile \notin drift \ op.wrote,
                    NEW f \in disk.refs, f \notin drift
             PROVE  disk.rules[f] # Absent
  BY DEF ReferencedExist
<1>t. f \in RuleFiles /\ disk \in Files /\ op.run \in {"alone", "together"}
  BY KeeperType DEF Files
<1>1. CASE op.run = "together"
  BY <1>1, <1>t DEF IInv, KeeperOK, Parts
<1>2. CASE op.run = "alone"
  <2> DEFINE r == op.req
             t == op.todo
             tx == op.tx
  <2>c. /\ r \in Requests /\ t \in Seq(Calling) /\ tx \in Tables /\ db \in Tables
        /\ Ahead /\ Shows /\ Loads /\ Proper(r, t) /\ Step = t[1] /\ Subject(Step)
    BY <1>2, AloneCall
  <2>f. Step.files = {}
    BY <2>c DEF Subject
  <2>x. tx = db \/ (tx = Executed(r, db) /\ \A g \in Refs(tx) \ Refs(db) : g \in op.wrote)
    BY <2>c, <2>f DEF Ahead
  <2>u. Unsettled = drift \cup op.wrote
    BY DEF Unsettled
  <2>1. CASE f \notin op.wrote
    <3>1. disk.rules[f] = RuleFile(db, f)
      BY <1>t, <2>1, <2>u DEF IInv, DiskOK
    <3>2. f \in Refs(db)
      <4>1. CASE ViewFile \in op.wrote
        <5>1. f \in Refs(tx)
          BY <2>c, <4>1 DEF Shows
        <5>q. QED  BY <2>1, <2>x, <5>1
      <4>2. CASE ViewFile \notin op.wrote
        BY <2>u, <4>2 DEF IInv, DiskOK
      <4>q. QED  BY <4>1, <4>2
    <3>q. QED  BY <3>1, <3>2 DEF Refs
  <2>2. CASE f \in op.wrote /\ f \notin About(t)
    <3>1. disk.rules[f] = RuleFile(tx, f) \/ (f \notin Refs(tx) /\ r.kind # "ttl")
      BY <1>t, <2>2, <2>c DEF Shows
    <3>2. CASE ViewFile \in op.wrote
      <4>1. f \in Refs(tx)
        BY <2>c, <3>2 DEF Shows
      <4>q. QED  BY <3>1, <4>1 DEF Refs
    <3>3. CASE ViewFile \notin op.wrote
      <4>1. r.kind \in NoView
        BY <2>c, <3>3 DEF Ahead
      <4>2. f \in About(Calls(r))
        BY <2>2, <2>c DEF Ahead
      <4>3. r.kind = "ttl"
        BY <1>t, <2>c, <4>1, <4>2, AboutCalls
      <4>4. disk.refs = Refs(db)
        BY <2>u, <3>3 DEF IInv, DiskOK
      <4>5. Refs(tx) = Refs(db)
        BY <2>c, <2>x, <4>3, ExecutedRules
      <4>q. QED  BY <3>1, <4>3, <4>4, <4>5 DEF Refs
    <3>q. QED  BY <3>2, <3>3
  <2>3. CASE f \in op.wrote /\ f \in About(t)
    <3>1. Len(t) >= 2 /\ t[2].do = "rules" /\ f \in t[2].files
      BY <1>t, <2>3, <2>c DEF Ahead
    <3>2. Unloaded(r, t, 2)
      <4>1. 2 \in 1 .. Len(t)
        BY <2>c, <3>1
      <4>q. QED  BY <2>c, <4>1 DEF Proper, Fits
    <3>3. r.kind # "ttl" /\ f[1] = "rpz"
      BY <2>c, <3>1, <3>2 DEF Unloaded, Call
    <3>4. NoRpz(disk.refs)
      BY <2>c, <3>1, <3>3 DEF Loads
    <3>q. QED  BY <3>3, <3>4 DEF NoRpz
  <2>q. QED  BY <2>1, <2>2, <2>3
<1>q. QED  BY <1>1, <1>2, <1>t

\* When a handler has named read its configuration, the files of rules that
\* the view file names are there, but for what a failed request has left.
THEOREM ReferencesThere == Spec => []ReferencedExist
  BY ReferencedThere, Initially, Inductive, PTL DEF Spec

\* With the files settled, a view is committed only if the files that named has
\* accepted define its access list.
LEMMA CommitDefined ==
    ASSUME IInv, Commit, AclFile \notin drift, ViewFile \notin drift
    PROVE  Dangling' \subseteq Dangling
<1>1. Busy /\ op.todo = <<>> /\ db' = op.tx
  BY DEF Commit
<1>t. op.req \in Requests /\ db \in Tables /\ op.run \in {"alone", "together"}
  BY <1>1, BusyType DEF IInv, TypeOK
<1>2. op.run = "alone"
  <2>1. op.run = "together" => drift = Parts
    BY <1>1 DEF IInv, KeeperOK
  <2>q. QED  BY <1>t, <2>1 DEF Parts
<1>3. Ahead /\ Shows /\ Loads
  BY <1>1, <1>2 DEF IInv, HandlerOK
<1>4. About(op.todo) = {}
  BY <1>1 DEF About
<1>5. op.wrote = About(Calls(op.req))
  BY <1>3, <1>4 DEF Ahead
<1>6. CASE Calls(op.req) = <<>>
  <2>1. op.tx = db
    BY <1>1, <1>3, <1>6 DEF Ahead
  <2>q. QED  BY <1>1, <2>1 DEF Dangling
<1>7. CASE Calls(op.req) # <<>>
  <2>1. op.tx = Executed(op.req, db) /\ Defined(disk)
    BY <1>1, <1>3, <1>7 DEF Ahead, Loads
  <2>2. disk.acls = op.tx.acls
    <3>1. AclFile \notin op.wrote => op.tx.acls = db.acls
      BY <1>t, <1>5, <2>1, ExecutedElsewhere
    <3>q. QED  BY <1>3, <3>1 DEF Shows, IInv, DiskOK, Unsettled
  <2>3. disk.views = op.tx.views
    <3>1. ViewFile \notin op.wrote => op.tx.views = db.views
      BY <1>t, <1>5, <2>1, ExecutedElsewhere
    <3>q. QED  BY <1>3, <1>4, <3>1 DEF Shows, IInv, DiskOK, Unsettled
  <2>q. QED  BY <1>1, <2>1, <2>2, <2>3 DEF Dangling, Defined
<1>q. QED  BY <1>6, <1>7

\* The rows a start puts in are defined by the rows it puts in.
LEMMA DefaultsDefined ==
    ASSUME IInv, Defaults
    PROVE  Dangling' \subseteq Dangling
<1> DEFINE A == WithDefaults(db)["acls"] \ db["acls"]
           V == WithDefaults(db)["views"] \ db["views"]
<1>t. db \in Tables
  BY DEF IInv, TypeOK
<1>1. A = DefaultAcls \ db.acls /\ V \subseteq {<<DefaultView, AnyAcl>>} /\ AnyAcl \in DefaultAcls
  BY <1>t, DefaultsPut, ViewsAssumption
<1>2. db' = [db EXCEPT !.acls = @ \cup A, !.views = @ \cup V]
  BY DEF Defaults
<1> HIDE DEF A, V
<1>3. db'.acls = db.acls \cup A /\ db'.views = db.views \cup V
  BY <1>2, <1>t DEF Tables
<1>4. AnyAcl \in db'.acls /\ db.acls \subseteq db'.acls
  BY <1>1, <1>3
<1>5. \A row \in V : row[2] = AnyAcl
  BY <1>1
<1>q. QED  BY <1>3, <1>4, <1>5 DEF Dangling

\* No view is committed with an access list the tables do not have, unless a
\* failed request has left the access lists or the views on disk different.
THEOREM NoneDangling == Spec => DanglingFromDrift
<1>1. IInv /\ [Next]_vars => [Dangling' \ Dangling # {} => {AclFile, ViewFile} \cap drift # {}]_vars
  <2> SUFFICES ASSUME IInv, [Next]_vars, AclFile \notin drift, ViewFile \notin drift
               PROVE  Dangling' \subseteq Dangling
    OBVIOUS
  <2>1. CASE Commit
    BY <2>1, CommitDefined
  <2>2. CASE Defaults
    BY <2>2, DefaultsDefined
  <2>3. CASE db' = db
    BY <2>3 DEF Dangling
  <2>q. QED
    BY <2>1, <2>2, <2>3 DEF Next, Receive, Statement, Write, RemoveFiles, ReconfigDNS, Proceed, Fails,
        KeeperWakes, InitFile, Start, KeeperFails, NamedDies, AgentRestarts, vars
<1>q. QED  BY <1>1, Initially, Inductive, PTL DEF Spec, DanglingFromDrift
=============================================================================

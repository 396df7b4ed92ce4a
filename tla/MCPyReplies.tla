----------------------------- MODULE MCPyReplies ------------------------------
(* PyReplies with every error of spec/errors.json at its status, unfamiliar ones at all, and *)
(* every form of the fields that are read.                                                   *)
EXTENDS PyReplies

Statuses == (400..405) \union {409, 422, 429, 502, 503}

Kept == { [suffix |-> s, status |-> n] : s \in Familiar, n \in Statuses }

Named == { e \in Kept : e.status \in StatusesOf(e.suffix) } \union
         [suffix : {"something-new"}, status : {400, 401, 403, 404, 429, 500, 503}]

Headers ==
  [form : {"absent", "date without Date", "not finite", "garbage"}, value : {0}] \union
  [form : {"number", "date"}, value : {-1, 0, 1, 3}]

Reply(e, h, b, where) ==
  [suffix |-> e.suffix, status |-> e.status, header |-> h, bodyWait |-> b,
   scope |-> where, id |-> where]

Silent == [form |-> "absent", value |-> 0]

SomeReplies ==
  { Reply(e, h, b, {}) : e \in Named, h \in Headers, b \in {{}, {-1}, {2}} } \union
  { Reply(e, Silent, {}, where) : e \in Named, where \in SUBSET {"header", "body"} }

SomeTokenReplies ==
  [kind : {"oauth"}, name : {"invalid_client", "invalid_scope", "new_code"}] \union
  [kind : {"problem"}, name : {"upstream-unavailable", "not-configured"}] \union
  [kind : {"other"}, name : {""}]
===============================================================================

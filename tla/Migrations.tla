------------------------------ MODULE Migrations ------------------------------
(***************************************************************************)
(* The database schema and the Alembic revisions that change it            *)
(* (src/alembic/versions), the rows they meet and convert, and the schema  *)
(* the SQLAlchemy models declare (src/app/models).                         *)
(*                                                                         *)
(* A schema is a set of elements, each a quadruple <<kind, owner, name,    *)
(* attribute>>: tables, columns ("required" is NOT NULL without a server   *)
(* default, "defaulted" is NOT NULL with one), the enum type of a column,  *)
(* enum types and their labels, indexes, unique constraints, foreign keys  *)
(* with their ON DELETE, check constraints and predicates of partial       *)
(* indexes.  Column widths and non-enum types are left out.                *)
(*                                                                         *)
(* A command of Alembic runs in one transaction (env.py), so a revision    *)
(* that fails leaves the database as it was.                               *)
(***************************************************************************)
EXTENDS Naturals, FiniteSets, SequencesExt

VARIABLES
  applied,     \* the revisions in force: the ancestors of alembic_version
  schema,      \* the elements the database holds
  rows         \* <<table, status>>: the tables that hold a row, and its status

migVars == <<applied, schema, rows>>

-----------------------------------------------------------------------------
(* Elements *)

Cols(t, null, cs) == {<<"col", t, c, null>> : c \in cs}
Typed(t, c, type) == {<<"uses", t, c, type>>}
Index(t, names)   == {<<"index", t, n, "plain">> : n \in names}
UIndex(t, names)  == {<<"index", t, n, "unique">> : n \in names}
Unique(t, cols)   == {<<"unique", t, cols, "">>}
Check(t, name)    == {<<"check", t, name, "">>}
Where(t, n, pred) == {<<"where", t, n, pred>>}
Fk(t, c, ref, onDelete) == {<<"fk", t, c, ref>>, <<"ondelete", t, c, onDelete>>}
Type(n, labels)   == {<<"type", "", n, "">>} \cup {<<"label", n, l, "">> : l \in labels}
Table(t, req, def, nul) ==
  {<<"table", t, "", "">>} \cup Cols(t, "required", req \cup {"id"})
    \cup Cols(t, "defaulted", def) \cup Cols(t, "nullable", nul)

Key(e) == <<e[1], e[2], e[3]>>

JobStates == {"NOT_REQUESTED", "QUEUED", "PROCESSING", "COMPLETED", "FAILED"}

-----------------------------------------------------------------------------
(* Operations of a revision.  Each maps a state to the next, [ok |-> FALSE] *)
(* when PostgreSQL or Alembic refuses it.                                   *)

Add(S)            == [do |-> "add", s |-> S]
AddType(n, ls)    == [do |-> "checkfirst", s |-> Type(n, ls)]
Drop(S)           == [do |-> "drop", s |-> S]
DropTable(t)      == [do |-> "drop_table", t |-> t]
DropType(n)       == [do |-> "drop_type", n |-> n]
Alter(t, cs, null) == [do |-> "alter", t |-> t, cs |-> cs, null |-> null]
Fill(t, cs)       == [do |-> "fill", t |-> t, cs |-> cs]
Delete(t)         == [do |-> "delete", t |-> t]
Convert(t, n, m)  == [do |-> "convert", t |-> t, n |-> n, map |-> m]
Unnamed           == [do |-> "unnamed"]

Populated(st)  == {r[1] : r \in st.rows}
Keys(S)        == {Key(x) : x \in S}
Has(st, e)     == Key(e) \in Keys(st.schema)
Labels(st, n)  == {x[3] : x \in {y \in st.schema : y[1] = "label" /\ y[2] = n}}
Refused(st)    == [st EXCEPT !.ok = FALSE]

(* ADD fails on a name that exists, on a column whose enum type does not    *)
(* exist, and on a NOT NULL column without a default in a table with rows.  *)
AddOp(st, S) ==
  LET new == {e[2] : e \in {x \in S : x[1] = "table"}}
      bad == \/ Keys(S) \cap Keys(st.schema) # {}
             \/ \E e \in S : e[1] = "uses" /\ <<"type", "", e[4], "">> \notin st.schema \cup S
             \/ \E e \in S : e[1] = "fk" /\ <<"table", e[4], "", "">> \notin st.schema \cup S
             \/ \E e \in S : e[1] = "col" /\ e[4] = "required" /\ e[2] \notin new /\ e[2] \in Populated(st)
      null == {<<e[2], e[3]>> : e \in {x \in S : /\ x[1] = "col"
                                                 /\ x[4] = "nullable"
                                                 /\ x[2] \in Populated(st)}}
  IN  IF bad THEN Refused(st)
      ELSE [st EXCEPT !.schema = @ \cup S, !.holes = @ \cup null]

(* DROP of columns, indexes and constraints; a column takes its type along. *)
DropOp(st, S) ==
  LET gone == Keys(S) \cup {<<"uses", e[2], e[3]>> : e \in {x \in S : x[1] = "col"}}
  IN  IF ~(Keys(S) \subseteq Keys(st.schema)) THEN Refused(st)
      ELSE [st EXCEPT !.schema = {x \in @ : Key(x) \notin gone}]

(* DROP TABLE fails while another table references it. *)
DropTableOp(st, t) ==
  IF \/ ~Has(st, <<"table", t, "", "">>)
     \/ \E x \in st.schema : x[1] = "fk" /\ x[4] = t /\ x[2] # t
  THEN Refused(st)
  ELSE [st EXCEPT !.schema = {x \in @ : x[2] # t}, !.rows = {r \in @ : r[1] # t}]

(* DROP TYPE IF EXISTS fails while a column uses the type. *)
DropTypeOp(st, n) ==
  IF \E x \in st.schema : x[1] = "uses" /\ x[4] = n THEN Refused(st)
  ELSE [st EXCEPT !.schema = {x \in @ : ~(x[1] = "type" /\ x[3] = n) /\ ~(x[1] = "label" /\ x[2] = n)}]

(* SET NOT NULL fails on a column that holds a NULL. *)
AlterOp(st, t, cs, null) ==
  IF \/ ~(Keys(Cols(t, "", cs)) \subseteq Keys(st.schema))
     \/ null # "nullable" /\ \E c \in cs : <<t, c>> \in st.holes
  THEN Refused(st)
  ELSE [st EXCEPT !.schema = {x \in @ : ~(x[1] = "col" /\ x[2] = t /\ x[3] \in cs)} \cup Cols(t, null, cs)]

(* DELETE FROM fails while a row of another table references the rows. *)
DeleteOp(st, t) ==
  IF \E x \in st.schema : /\ x[1] = "fk" /\ x[4] = t /\ x[2] \in Populated(st) /\ t \in Populated(st)
                          /\ <<"ondelete", x[2], x[3], "NO ACTION">> \in st.schema
  THEN Refused(st)
  ELSE [st EXCEPT !.rows = {r \in @ : r[1] # t}, !.holes = {h \in @ : h[1] # t}]

(* mutant: a WHEN is missing, and its label takes the ELSE *)
ConvertForgets(st, t, n, m) ==
  LET conv(s) == IF s \in DOMAIN m THEN m[s] ELSE IF n = "taskstatus" THEN "TODO" ELSE "UPLOADED"
      new == {IF r[1] = t THEN <<t, conv(r[2])>> ELSE r : r \in st.rows}
  IN  IF \E r \in new : r[1] = t /\ r[2] \notin Labels(st, n) THEN Refused(st)
      ELSE [st EXCEPT !.rows = new]

(* A status is rewritten by CASE and cast to the enum: an unknown label is  *)
(* refused.                                                                 *)
ConvertOp(st, t, n, m) ==
  LET conv(s) == IF s \in DOMAIN m THEN m[s] ELSE s
      new == {IF r[1] = t THEN <<t, conv(r[2])>> ELSE r : r \in st.rows}
  IN  IF \E r \in new : r[1] = t /\ r[2] \notin Labels(st, n) THEN Refused(st)
      ELSE [st EXCEPT !.rows = new]

Apply(st, o) ==
  IF ~st.ok THEN st ELSE
  CASE o.do = "add"         -> AddOp(st, o.s)
    [] o.do = "checkfirst"  -> [st EXCEPT !.schema = IF \E e \in o.s : e[1] = "type" /\ Has(st, e)
                                                     THEN @ ELSE @ \cup o.s]
    [] o.do = "drop"        -> DropOp(st, o.s)
    [] o.do = "drop_table"  -> DropTableOp(st, o.t)
    [] o.do = "drop_type"   -> DropTypeOp(st, o.n)
    [] o.do = "alter"       -> AlterOp(st, o.t, o.cs, o.null)
    [] o.do = "fill"        -> [st EXCEPT !.holes = {h \in @ : ~(h[1] = o.t /\ h[2] \in o.cs)}]
    [] o.do = "delete"      -> DeleteOp(st, o.t)
    [] o.do = "convert"     -> ConvertOp(st, o.t, o.n, o.map)
    [] o.do = "unnamed"     -> Refused(st)

Run(ops, sch, rws) ==
  FoldLeft(Apply, [schema |-> sch, rows |-> rws, holes |-> {}, ok |-> TRUE], ops)

-----------------------------------------------------------------------------
(* The revisions.  A merge and the superseded 3ff9 change nothing.          *)

(* "create foundational entities"; its enums are created by create_table,   *)
(* without checkfirst, and its downgrade leaves them behind.                *)
Up17a4 == <<
  Add(Table("users", {"email", "password_hash", "full_name"}, {"created_at"}, {"deleted_at"})
      \cup UIndex("users", {"ix_users_email"})),
  Add(Table("courses", {"user_id", "title", "semester"}, {"created_at"}, {"professor", "deleted_at"})
      \cup Fk("courses", "user_id", "users", "NO ACTION")),
  Add(Type("documentstatus", {"PENDING", "PROCESSING", "COMPLETED", "FAILED"})
      \cup Table("documents", {"course_id", "file_name", "file_path", "status"}, {"created_at"}, {"deleted_at"})
      \cup Typed("documents", "status", "documentstatus")
      \cup Fk("documents", "course_id", "courses", "NO ACTION")),
  Add(Type("taskstatus", {"TODO", "IN_PROGRESS", "COMPLETED", "OVERDUE"})
      \cup Table("tasks", {"course_id", "title", "status"}, {"created_at"}, {"due_date", "deleted_at"})
      \cup Typed("tasks", "status", "taskstatus")
      \cup Fk("tasks", "course_id", "courses", "NO ACTION")) >>
Down17a4 == <<DropTable("tasks"), DropTable("documents"), DropTable("courses"), DropTable("users")>>

(* "add document file metadata"; its downgrade drops constraints by no name.*)
Up3b4e == <<
  Add(Cols("documents", "required", {"file_size"})),
  Add(Cols("documents", "required", {"mime_type"})),
  Add(Cols("documents", "defaulted", {"updated_at"})),
  Add(Index("documents", {"ix_documents_course_id", "ix_documents_id"})),
  Add(Unique("documents", "file_path")),
  Drop(Fk("documents", "course_id", "courses", "NO ACTION")),
  Add(Fk("documents", "course_id", "courses", "CASCADE")) >>
Down3b4e == <<Unnamed>>

(* "add user role" *)
Up4c06 == <<
  AddType("userrole", {"STUDENT", "ADMIN"}),
  Add(Cols("users", "defaulted", {"role"}) \cup Typed("users", "role", "userrole")),
  Alter("users", {"role"}, "required") >>
Down4c06 == <<Drop(Cols("users", "", {"role"})), DropType("userrole")>>

(* "align course schema with model" *)
Up_af43 == <<
  Add(Type("semesterstatus", {"UPCOMING", "ACTIVE", "COMPLETED", "ARCHIVED"})
      \cup Table("semesters", {"user_id", "name", "academic_year", "start_date", "end_date"},
                 {"status", "is_deleted", "created_at", "updated_at"}, {"description", "deleted_at"})
      \cup Typed("semesters", "status", "semesterstatus")
      \cup Fk("semesters", "user_id", "users", "NO ACTION")),
  Add(UIndex("semesters", {"uq_semesters_active_user_name_year"})
      \cup Where("semesters", "uq_semesters_active_user_name_year", "active, not deleted")),
  AddType("coursestatus", {"ACTIVE", "COMPLETED", "DROPPED", "ARCHIVED"}),
  Add(Cols("courses", "nullable", {"semester_id", "course_code", "name", "instructor_name", "credits",
                                   "classroom", "color", "description"})),
  Add(Cols("courses", "defaulted", {"status", "is_deleted", "updated_at"})
      \cup Typed("courses", "status", "coursestatus")),
  Delete("tasks"), Delete("documents"), Delete("courses"),
  Alter("courses", {"semester_id", "course_code", "name", "credits"}, "required"),
  Add(Fk("courses", "semester_id", "semesters", "CASCADE")),
  Add(Index("courses", {"idx_courses_semester_id", "ix_courses_user_id"})
      \cup UIndex("courses", {"uq_active_course_code_per_semester"})
      \cup Where("courses", "uq_active_course_code_per_semester", "not deleted")),
  Add(Check("courses", "check_course_credits_positive") \cup Check("courses", "check_hex_color")),
  Drop(Cols("courses", "", {"professor", "title", "semester"})) >>
Down_af43 == <<
  Add(Cols("courses", "nullable", {"semester", "title", "professor"})),
  Fill("courses", {"title", "semester"}),
  Alter("courses", {"title", "semester"}, "required"),
  Drop(Check("courses", "check_course_credits_positive") \cup Check("courses", "check_hex_color")),
  Drop(Fk("courses", "semester_id", "semesters", "CASCADE")),
  Drop(UIndex("courses", {"uq_active_course_code_per_semester"})
       \cup Where("courses", "uq_active_course_code_per_semester", "not deleted")
       \cup Index("courses", {"ix_courses_user_id", "idx_courses_semester_id"})),
  Drop(Cols("courses", "", {"updated_at", "is_deleted", "status", "description", "color", "classroom",
                            "credits", "instructor_name", "name", "course_code", "semester_id"})),
  DropTable("semesters"),
  DropType("coursestatus"), DropType("semesterstatus") >>

(* "extend document model for academic files" *)
NewDocumentColumns == {"original_file_name", "stored_file_name", "storage_path"}

Up_a293 == <<
  AddType("documenttype", {"SYLLABUS", "LECTURE_NOTE", "ASSIGNMENT", "SLIDE", "REFERENCE", "OTHER"}),
  AddType("processingstatus", {"UPLOADED", "QUEUED", "PROCESSING", "COMPLETED", "FAILED"}),
  Add(Cols("documents", "nullable", NewDocumentColumns \cup {"uploaded_by", "checksum", "processing_error"})),
  Add(Cols("documents", "defaulted", {"document_type", "processing_status", "is_deleted"})
      \cup Typed("documents", "document_type", "documenttype")
      \cup Typed("documents", "processing_status", "processingstatus")),
  Fill("documents", NewDocumentColumns), Fill("documents", {"uploaded_by"}),
  Convert("documents", "processingstatus", [PENDING |-> "UPLOADED"]),
  Alter("documents", NewDocumentColumns \cup {"uploaded_by"}, "required"),
  Drop(Unique("documents", "file_path")),
  Add(Index("documents", {"ix_documents_checksum", "ix_documents_uploaded_by"})),
  Add(Unique("documents", "storage_path") \cup Fk("documents", "uploaded_by", "users", "RESTRICT")),
  Drop(Cols("documents", "", {"status", "file_path", "file_name"})) >>
Down_a293 == <<
  AddType("documentstatus", {"PENDING", "PROCESSING", "COMPLETED", "FAILED"}),
  Add(Cols("documents", "nullable", {"file_name", "file_path", "status"})
      \cup Typed("documents", "status", "documentstatus")),
  Fill("documents", {"file_name", "file_path", "status"}),
  Convert("documents", "documentstatus", [UPLOADED |-> "PENDING", QUEUED |-> "PENDING"]),
  Alter("documents", {"file_name", "file_path", "status"}, "required"),
  Drop(Fk("documents", "uploaded_by", "users", "RESTRICT")),
  Drop(Unique("documents", "storage_path")),
  Drop(Index("documents", {"ix_documents_uploaded_by", "ix_documents_checksum"})),
  Add(Unique("documents", "file_path")),
  Drop(Cols("documents", "", NewDocumentColumns \cup {"is_deleted", "processing_error", "processing_status",
                              "document_type", "checksum", "uploaded_by"})),
  DropType("processingstatus"), DropType("documenttype") >>

(* "expand academic task model"; taskstatus is renamed, made anew and the   *)
(* rows cast to it.                                                         *)
TaskColumns == {"source_document_id", "description", "estimated_minutes", "completed_at"}
TaskRequired == {"task_type", "priority", "source", "is_deleted"}

Up58ee == <<
  AddType("tasktype", {"ASSIGNMENT", "EXAM", "QUIZ", "READING", "PROJECT", "PRESENTATION", "OTHER"}),
  AddType("taskpriority", {"LOW", "MEDIUM", "HIGH", "URGENT"}),
  AddType("tasksource", {"MANUAL", "DOCUMENT_EXTRACTION", "AI_GENERATED"}),
  Drop({<<"label", "taskstatus", "OVERDUE", "">>}), Add({<<"label", "taskstatus", "CANCELLED", "">>}),
  Convert("tasks", "taskstatus", [OVERDUE |-> "TODO"]),
  Drop(Cols("tasks", "", {"due_date"})), Add(Cols("tasks", "nullable", {"due_at"} \cup TaskColumns)),
  Add(Cols("tasks", "defaulted", TaskRequired \cup {"updated_at"})
      \cup Typed("tasks", "task_type", "tasktype") \cup Typed("tasks", "priority", "taskpriority")
      \cup Typed("tasks", "source", "tasksource")),
  Alter("tasks", TaskRequired, "required"),
  Add(Check("tasks", "ck_tasks_estimated_minutes_nonnegative")),
  Add(Fk("tasks", "source_document_id", "documents", "SET NULL")),
  Add(Index("tasks", {"ix_tasks_course_id", "ix_tasks_status", "ix_tasks_due_at"})) >>
Down58ee == <<
  Drop(Index("tasks", {"ix_tasks_course_id", "ix_tasks_status", "ix_tasks_due_at"})),
  Drop(Fk("tasks", "source_document_id", "documents", "SET NULL")),
  Drop(Check("tasks", "ck_tasks_estimated_minutes_nonnegative")),
  Drop(Cols("tasks", "", {"due_at"})), Add(Cols("tasks", "nullable", {"due_date"})),
  Drop(Cols("tasks", "", TaskColumns \cup TaskRequired \cup {"updated_at"})),
  Drop({<<"label", "taskstatus", "CANCELLED", "">>}), Add({<<"label", "taskstatus", "OVERDUE", "">>}),
  Convert("tasks", "taskstatus", [CANCELLED |-> "TODO"]),
  DropType("tasksource"), DropType("taskpriority"), DropType("tasktype") >>

(* "add phase 2 auth hardening tables" *)
TokenTable(t, req, def, nul) ==
  Table(t, req \cup {"user_id", "token_hash", "expires_at"}, def, nul)
    \cup Fk(t, "user_id", "users", "NO ACTION")

Up80d7 == <<
  Add(TokenTable("email_verification_tokens", {}, {"created_at"}, {"used_at"})
      \cup UIndex("email_verification_tokens", {"ix_email_verification_tokens_token_hash"})
      \cup Index("email_verification_tokens", {"ix_email_verification_tokens_user_id"})),
  Add(TokenTable("password_reset_tokens", {}, {"created_at"}, {"used_at"})
      \cup UIndex("password_reset_tokens", {"ix_password_reset_tokens_token_hash"})
      \cup Index("password_reset_tokens", {"ix_password_reset_tokens_user_id"})),
  Add(TokenTable("refresh_tokens", {"family_id"}, {"issued_at"}, {"revoked_at"})
      \cup UIndex("refresh_tokens", {"ix_refresh_tokens_token_hash"})
      \cup Index("refresh_tokens", {"ix_refresh_tokens_family_id", "ix_refresh_tokens_user_id"})),
  Add(Cols("users", "defaulted", {"email_verified", "failed_login_attempts"})
      \cup Cols("users", "nullable", {"locked_until"})) >>
(* mutant: the downgrade forgets a column *)
Down80d7Forgets == <<
  Drop(Cols("users", "", {"failed_login_attempts", "email_verified"})),
  DropTable("refresh_tokens"), DropTable("password_reset_tokens"), DropTable("email_verification_tokens") >>
Down80d7 == <<
  Drop(Cols("users", "", {"locked_until", "failed_login_attempts", "email_verified"})),
  DropTable("refresh_tokens"), DropTable("password_reset_tokens"), DropTable("email_verification_tokens") >>

(* "reconcile course and semester schema drift with models" *)
Up25e1 == <<
  Alter("courses", {"status"}, "required"),
  Drop(Index("courses", {"idx_courses_semester_id", "ix_courses_user_id"})
       \cup UIndex("courses", {"uq_active_course_code_per_semester"})
       \cup Where("courses", "uq_active_course_code_per_semester", "not deleted")),
  Add(Index("courses", {"ix_courses_course_code", "ix_courses_semester_id", "ix_courses_status"})),
  Add(UIndex("courses", {"uq_courses_active_semester_code"})
      \cup Where("courses", "uq_courses_active_semester_code", "active, not deleted")),
  Drop(Fk("courses", "user_id", "users", "NO ACTION")),
  Drop(Cols("courses", "", {"user_id"})),
  Drop(Index("documents", {"ix_documents_id"})),
  Alter("semesters", {"status", "is_deleted"}, "required") >>
Down25e1 == <<
  Alter("semesters", {"status", "is_deleted"}, "defaulted"),
  Add(Index("documents", {"ix_documents_id"})),
  Add(Cols("courses", "required", {"user_id"})),
  Add(Fk("courses", "user_id", "users", "NO ACTION")),
  Drop(UIndex("courses", {"uq_courses_active_semester_code"})
       \cup Where("courses", "uq_courses_active_semester_code", "active, not deleted")
       \cup Index("courses", {"ix_courses_course_code", "ix_courses_semester_id", "ix_courses_status"})),
  Add(Index("courses", {"idx_courses_semester_id", "ix_courses_user_id"})
      \cup UIndex("courses", {"uq_active_course_code_per_semester"})
      \cup Where("courses", "uq_active_course_code_per_semester", "not deleted")),
  Alter("courses", {"status"}, "defaulted") >>

(* "add document processing extraction fields" *)
Up644f == <<
  AddType("extractionmethod", {"NATIVE", "OCR", "UNSUPPORTED"}),
  Add(Cols("documents", "nullable", {"processed_at", "extraction_method", "page_count", "text_length",
                                     "extracted_content_path"})
      \cup Typed("documents", "extraction_method", "extractionmethod")) >>
Down644f == <<
  Drop(Cols("documents", "", {"extracted_content_path", "text_length", "page_count",
                              "extraction_method", "processed_at"})),
  DropType("extractionmethod") >>

(* "add structured extraction tables" *)
Up49d5 == <<
  AddType("llmextractionstatus", JobStates),
  AddType("candidatetype", {"COURSE_INFO", "ASSIGNMENT", "EXAM", "IMPORTANT_DATE", "GRADING_POLICY"}),
  AddType("candidatestatus", {"PENDING", "ACCEPTED", "REJECTED"}),
  Add(Cols("documents", "defaulted", {"llm_extraction_status"})
      \cup Typed("documents", "llm_extraction_status", "llmextractionstatus")),
  Add(Cols("documents", "nullable", {"llm_extraction_error"})),
  Add(Table("extraction_candidates", {"document_id", "candidate_type", "payload"}, {"status", "created_at"},
            {"source_page", "created_task_id", "reviewed_at", "reviewed_by"})
      \cup Typed("extraction_candidates", "candidate_type", "candidatetype")
      \cup Typed("extraction_candidates", "status", "candidatestatus")
      \cup Fk("extraction_candidates", "document_id", "documents", "CASCADE")
      \cup Fk("extraction_candidates", "created_task_id", "tasks", "SET NULL")
      \cup Fk("extraction_candidates", "reviewed_by", "users", "NO ACTION")
      \cup Index("extraction_candidates", {"ix_extraction_candidates_document_id"})) >>
Down49d5 == <<
  DropTable("extraction_candidates"),
  Drop(Cols("documents", "", {"llm_extraction_error", "llm_extraction_status"})),
  DropType("candidatestatus"), DropType("candidatetype"), DropType("llmextractionstatus") >>

(* "add rag document_chunks table"; the vector extension is never dropped.  *)
Up9fa0 == <<
  AddType("vector", {}),
  AddType("chunkembeddingstatus", JobStates),
  Add(Cols("documents", "defaulted", {"chunk_embedding_status"})
      \cup Typed("documents", "chunk_embedding_status", "chunkembeddingstatus")),
  Add(Cols("documents", "nullable", {"chunk_embedding_error"})),
  Add(Table("document_chunks", {"document_id", "course_id", "user_id", "chunk_index", "content",
                                "start_page", "end_page"}, {"created_at"}, {"embedding", "embedding_model"})
      \cup Typed("document_chunks", "embedding", "vector")
      \cup Fk("document_chunks", "document_id", "documents", "CASCADE")
      \cup Fk("document_chunks", "course_id", "courses", "CASCADE")
      \cup Fk("document_chunks", "user_id", "users", "RESTRICT")
      \cup Index("document_chunks", {"ix_document_chunks_document_id", "ix_document_chunks_course_id",
                                     "ix_document_chunks_user_id"})) >>
Down9fa0 == <<
  DropTable("document_chunks"),
  Drop(Cols("documents", "", {"chunk_embedding_error", "chunk_embedding_status"})),
  DropType("chunkembeddingstatus") >>

(* "add chat conversation and message tables" *)
Up6d3c == <<
  AddType("messagerole", {"USER", "ASSISTANT"}),
  Add(Table("conversations", {"user_id"}, {"is_deleted", "created_at", "updated_at"}, {"title"})
      \cup Fk("conversations", "user_id", "users", "CASCADE")
      \cup Index("conversations", {"ix_conversations_user_id"})),
  Add(Table("messages", {"conversation_id", "role", "content"}, {"created_at"}, {"grounded", "citations"})
      \cup Typed("messages", "role", "messagerole")
      \cup Fk("messages", "conversation_id", "conversations", "CASCADE")
      \cup Index("messages", {"ix_messages_conversation_id"})) >>
Down6d3c == <<DropTable("messages"), DropTable("conversations"), DropType("messagerole")>>

(* "add semester roadmap tables" *)
Up87d2 == <<
  AddType("roadmapgenerationstatus", JobStates),
  AddType("roadmapitemtype", {"MILESTONE", "ASSIGNMENT_PREPARATION", "EXAM_PREPARATION", "RECOMMENDATION"}),
  AddType("roadmapitemorigin", {"DETERMINISTIC", "AI_GENERATED"}),
  Add(Table("semester_roadmaps", {"semester_id"}, {"status", "version", "created_at", "updated_at"},
            {"generated_at", "generation_error", "recommendations_unavailable_reason"})
      \cup Typed("semester_roadmaps", "status", "roadmapgenerationstatus")
      \cup Fk("semester_roadmaps", "semester_id", "semesters", "CASCADE")
      \cup UIndex("semester_roadmaps", {"ix_semester_roadmaps_semester_id"})),
  Add(Table("roadmap_weeks", {"roadmap_id", "week_number", "start_date", "end_date"}, {}, {})
      \cup Unique("roadmap_weeks", "roadmap_id, week_number")
      \cup Fk("roadmap_weeks", "roadmap_id", "semester_roadmaps", "CASCADE")
      \cup Index("roadmap_weeks", {"ix_roadmap_weeks_roadmap_id"})),
  Add(Table("roadmap_items", {"week_id", "roadmap_id", "item_type", "origin", "title"},
            {"is_user_edited", "created_at", "updated_at"}, {"description", "task_id", "course_id", "due_date"})
      \cup Typed("roadmap_items", "item_type", "roadmapitemtype")
      \cup Typed("roadmap_items", "origin", "roadmapitemorigin")
      \cup Fk("roadmap_items", "week_id", "roadmap_weeks", "CASCADE")
      \cup Fk("roadmap_items", "roadmap_id", "semester_roadmaps", "CASCADE")
      \cup Fk("roadmap_items", "task_id", "tasks", "SET NULL")
      \cup Fk("roadmap_items", "course_id", "courses", "SET NULL")
      \cup Index("roadmap_items", {"ix_roadmap_items_roadmap_id", "ix_roadmap_items_task_id",
                                   "ix_roadmap_items_week_id"})) >>
Down87d2 == <<
  DropTable("roadmap_items"), DropTable("roadmap_weeks"), DropTable("semester_roadmaps"),
  DropType("roadmapitemorigin"), DropType("roadmapitemtype"), DropType("roadmapgenerationstatus") >>

(* "add degree advisor tables" *)
Up762e == <<
  Add(Table("course_catalog_entries", {"institution_name", "course_code", "course_name", "credits"},
            {"created_at"}, {"category"})
      \cup Unique("course_catalog_entries", "institution_name, course_code")
      \cup Index("course_catalog_entries", {"ix_course_catalog_entries_institution_name"})),
  Add(Table("degree_programs", {"institution_name", "name", "catalog_year"}, {"created_at"}, {})
      \cup Index("degree_programs", {"ix_degree_programs_institution_name"})),
  Add(Table("degree_requirements", {"degree_program_id", "category"}, {}, {"required_course_id", "min_credits"})
      \cup Fk("degree_requirements", "degree_program_id", "degree_programs", "CASCADE")
      \cup Fk("degree_requirements", "required_course_id", "course_catalog_entries", "SET NULL")
      \cup Index("degree_requirements", {"ix_degree_requirements_degree_program_id"})),
  Add(Table("prerequisites", {"course_id", "required_course_id"}, {}, {})
      \cup Unique("prerequisites", "course_id, required_course_id")
      \cup Fk("prerequisites", "course_id", "course_catalog_entries", "CASCADE")
      \cup Fk("prerequisites", "required_course_id", "course_catalog_entries", "CASCADE")
      \cup Index("prerequisites", {"ix_prerequisites_course_id"})),
  Add(Table("student_degree_progress", {"user_id", "degree_program_id"}, {"declared_at"}, {})
      \cup Unique("student_degree_progress", "user_id")
      \cup Fk("student_degree_progress", "user_id", "users", "CASCADE")
      \cup Fk("student_degree_progress", "degree_program_id", "degree_programs", "CASCADE")
      \cup Index("student_degree_progress", {"ix_student_degree_progress_user_id"})) >>
Down762e == <<
  DropTable("student_degree_progress"), DropTable("prerequisites"), DropTable("degree_requirements"),
  DropTable("degree_programs"), DropTable("course_catalog_entries") >>

(* "add calendar sync tables" *)
Up_e6c7 == <<
  AddType("calendarsyncstatus", {"SYNCED", "FAILED"}),
  Add(Table("calendar_connections", {"user_id", "access_token", "refresh_token", "token_expires_at"},
            {"connected_at"}, {})
      \cup Unique("calendar_connections", "user_id")
      \cup Fk("calendar_connections", "user_id", "users", "CASCADE")
      \cup Index("calendar_connections", {"ix_calendar_connections_user_id"})),
  Add(Table("calendar_syncs", {"task_id", "sync_status"}, {},
            {"provider_event_id", "sync_error", "last_synced_at"})
      \cup Typed("calendar_syncs", "sync_status", "calendarsyncstatus")
      \cup Unique("calendar_syncs", "task_id")
      \cup Fk("calendar_syncs", "task_id", "tasks", "CASCADE")
      \cup Index("calendar_syncs", {"ix_calendar_syncs_task_id"})) >>
Down_e6c7 == <<DropTable("calendar_syncs"), DropTable("calendar_connections"), DropType("calendarsyncstatus")>>

(* "add notification preference and log tables" *)
Up_bf77 == <<
  AddType("notificationtype",
          {"ASSIGNMENT_DUE", "EXAM_COUNTDOWN", "WEEKLY_PLAN", "OVERDUE_TASK", "RECOVERY_PLAN"}),
  Add(Table("notification_preferences", {"user_id", "notification_type", "enabled"}, {}, {})
      \cup Typed("notification_preferences", "notification_type", "notificationtype")
      \cup Unique("notification_preferences", "user_id, notification_type")
      \cup Fk("notification_preferences", "user_id", "users", "CASCADE")
      \cup Index("notification_preferences", {"ix_notification_preferences_user_id"})),
  Add(Table("notification_logs", {"user_id", "notification_type", "reference_id", "subject"},
            {"sent_at"}, {"provider_message_id"})
      \cup Typed("notification_logs", "notification_type", "notificationtype")
      \cup Unique("notification_logs", "user_id, notification_type, reference_id")
      \cup Fk("notification_logs", "user_id", "users", "CASCADE")
      \cup Index("notification_logs", {"ix_notification_logs_user_id"})) >>
Down_bf77 == <<DropTable("notification_logs"), DropTable("notification_preferences"), DropType("notificationtype")>>

(* mutant: a label of the Python enum is missing from the type *)
Up_c1a9Label == <<
  AddType("answermode", {"GENERAL", "GROUNDED"}),
  Add(Cols("messages", "nullable", {"answer_mode"}) \cup Typed("messages", "answer_mode", "answermode")) >>

(* "add answer_mode to messages" *)
Up_c1a9 == <<
  AddType("answermode", {"GENERAL", "GROUNDED", "MISSING_PERSONAL_CONTEXT"}),
  Add(Cols("messages", "nullable", {"answer_mode"}) \cup Typed("messages", "answer_mode", "answermode")) >>
Down_c1a9 == <<Drop(Cols("messages", "", {"answer_mode"})), DropType("answermode")>>

(* The graph of revisions, and one order of it.                             *)
Parents ==
  [x7236 |-> {}, x17a4 |-> {"x7236"}, x3b4e |-> {"x17a4"}, x4c06 |-> {"x17a4"},
   x4520 |-> {"x3b4e", "x4c06"}, x1bb0 |-> {"x3b4e", "x4c06"}, x3ff9 |-> {"x1bb0"}, x58ee |-> {"x4c06"},
   xaf43 |-> {"x4520"}, xa293 |-> {"xaf43"}, x9aa9 |-> {"x3ff9", "x58ee", "xa293"},
   x80d7 |-> {"x9aa9"}, x25e1 |-> {"x80d7"}, x644f |-> {"x25e1"}, x49d5 |-> {"x644f"}, x9fa0 |-> {"x49d5"},
   x6d3c |-> {"x9fa0"}, x87d2 |-> {"x6d3c"}, x762e |-> {"x87d2"}, xe6c7 |-> {"x762e"}, xbf77 |-> {"xe6c7"},
   xc1a9 |-> {"xbf77"}]
Revisions == DOMAIN Parents
Order == <<"x7236", "x17a4", "x3b4e", "x4c06", "x4520", "x1bb0", "x3ff9", "x58ee", "xaf43", "xa293", "x9aa9",
           "x80d7", "x25e1", "x644f", "x49d5", "x9fa0", "x6d3c", "x87d2", "x762e", "xe6c7", "xbf77", "xc1a9">>
Merged == {Order[i] : i \in 12..Len(Order)}   \* the revisions after the last merge

Up(r) ==
  CASE r = "x17a4" -> Up17a4  [] r = "x3b4e" -> Up3b4e  [] r = "x4c06" -> Up4c06  [] r = "x58ee" -> Up58ee
    [] r = "xaf43" -> Up_af43 [] r = "xa293" -> Up_a293 [] r = "x80d7" -> Up80d7  [] r = "x25e1" -> Up25e1
    [] r = "x644f" -> Up644f  [] r = "x49d5" -> Up49d5  [] r = "x9fa0" -> Up9fa0  [] r = "x6d3c" -> Up6d3c
    [] r = "x87d2" -> Up87d2  [] r = "x762e" -> Up762e  [] r = "xe6c7" -> Up_e6c7 [] r = "xbf77" -> Up_bf77
    [] r = "xc1a9" -> Up_c1a9 [] OTHER -> <<>>
Down(r) ==
  CASE r = "x17a4" -> Down17a4  [] r = "x3b4e" -> Down3b4e  [] r = "x4c06" -> Down4c06  [] r = "x58ee" -> Down58ee
    [] r = "xaf43" -> Down_af43 [] r = "xa293" -> Down_a293 [] r = "x80d7" -> Down80d7  [] r = "x25e1" -> Down25e1
    [] r = "x644f" -> Down644f  [] r = "x49d5" -> Down49d5  [] r = "x9fa0" -> Down9fa0  [] r = "x6d3c" -> Down6d3c
    [] r = "x87d2" -> Down87d2  [] r = "x762e" -> Down762e  [] r = "xe6c7" -> Down_e6c7 [] r = "xbf77" -> Down_bf77
    [] r = "xc1a9" -> Down_c1a9 [] OTHER -> <<>>

-----------------------------------------------------------------------------
(* Actions *)

MigInit == applied = {} /\ schema = {} /\ rows = {}

(* A command runs in one transaction: one that fails changes nothing.       *)
Execute(st, revisions) ==
  st.ok /\ applied' = revisions /\ schema' = st.schema /\ rows' = st.rows

CanUpgrade(r)   == r \in Revisions \ applied /\ Parents[r] \subseteq applied
CanDowngrade(r) == r \in applied /\ \A q \in applied : r \notin Parents[q]

(* alembic upgrade to r, the next one on its branch                         *)
UpgradeTo(r)     == CanUpgrade(r)   /\ Execute(Run(Up(r), schema, rows), applied \cup {r})
(* alembic downgrade of r, the last one on its branch                       *)
DowngradeFrom(r) == CanDowngrade(r) /\ Execute(Run(Down(r), schema, rows), applied \ {r})

(* The program stores a row; a course needs a user and, later, a semester.  *)
Status(t) ==
  CASE t = "tasks"     -> Labels([schema |-> schema], "taskstatus")
    [] t = "documents" -> IF <<"col", "documents", "status", "required">> \in schema
                          THEN Labels([schema |-> schema], "documentstatus")
                          ELSE Labels([schema |-> schema], "processingstatus")
    [] OTHER           -> {""}

StoreRow(t, s) ==
  /\ <<"table", t, "", "">> \in schema /\ t \notin Populated([rows |-> rows])
  /\ \A x \in schema : x[1] = "fk" /\ x[2] = t /\ <<"col", t, x[3], "required">> \in schema
                         => x[4] \in Populated([rows |-> rows])
  /\ s \in Status(t)
  /\ rows' = rows \cup {<<t, s>>}
  /\ UNCHANGED <<applied, schema>>

MigNext ==
  \/ \E r \in Revisions : UpgradeTo(r) \/ DowngradeFrom(r)
  \/ \E t \in {"users", "semesters", "courses", "documents", "tasks"} : \E s \in Status(t) : StoreRow(t, s)

-----------------------------------------------------------------------------
(* The schema of the models *)

UserModel ==
  Table("users", {"role", "email", "password_hash", "full_name"},
        {"created_at", "email_verified", "failed_login_attempts"}, {"locked_until", "deleted_at"})
    \cup Type("userrole", {"STUDENT", "ADMIN"}) \cup Typed("users", "role", "userrole")
    \cup UIndex("users", {"ix_users_email"})

SemesterModel ==
  Table("semesters", {"user_id", "name", "academic_year", "start_date", "end_date", "status", "is_deleted"},
        {"created_at", "updated_at"}, {"description", "deleted_at"})
    \cup Type("semesterstatus", {"UPCOMING", "ACTIVE", "COMPLETED", "ARCHIVED"})
    \cup Typed("semesters", "status", "semesterstatus")
    \cup Fk("semesters", "user_id", "users", "NO ACTION")
    \cup UIndex("semesters", {"uq_semesters_active_user_name_year"})
    \cup Where("semesters", "uq_semesters_active_user_name_year", "active")

CourseModel ==
  Table("courses", {"semester_id", "course_code", "name", "credits", "status"},
        {"is_deleted", "created_at", "updated_at"},
        {"instructor_name", "classroom", "color", "description", "deleted_at"})
    \cup Type("coursestatus", {"ACTIVE", "COMPLETED", "DROPPED", "ARCHIVED"})
    \cup Typed("courses", "status", "coursestatus")
    \cup Fk("courses", "semester_id", "semesters", "CASCADE")
    \cup Index("courses", {"ix_courses_course_code", "ix_courses_semester_id", "ix_courses_status"})
    \cup UIndex("courses", {"uq_courses_active_semester_code"})
    \cup Where("courses", "uq_courses_active_semester_code", "active, not deleted")
    \cup Check("courses", "ck_courses_credits_range")

DocumentModel ==
  Table("documents", {"course_id", "uploaded_by", "original_file_name", "stored_file_name", "storage_path",
                      "mime_type", "file_size"},
        {"document_type", "processing_status", "llm_extraction_status", "chunk_embedding_status",
         "is_deleted", "created_at", "updated_at"},
        {"checksum", "processing_error", "processed_at", "extraction_method", "page_count", "text_length",
         "extracted_content_path", "llm_extraction_error", "chunk_embedding_error", "deleted_at"})
    \cup Type("documenttype", {"SYLLABUS", "LECTURE_NOTE", "ASSIGNMENT", "SLIDE", "REFERENCE", "OTHER"})
    \cup Type("processingstatus", {"UPLOADED", "QUEUED", "PROCESSING", "COMPLETED", "FAILED"})
    \cup Type("extractionmethod", {"NATIVE", "OCR", "UNSUPPORTED"})
    \cup Type("llmextractionstatus", JobStates) \cup Type("chunkembeddingstatus", JobStates)
    \cup Typed("documents", "document_type", "documenttype")
    \cup Typed("documents", "processing_status", "processingstatus")
    \cup Typed("documents", "extraction_method", "extractionmethod")
    \cup Typed("documents", "llm_extraction_status", "llmextractionstatus")
    \cup Typed("documents", "chunk_embedding_status", "chunkembeddingstatus")
    \cup Fk("documents", "course_id", "courses", "CASCADE")
    \cup Fk("documents", "uploaded_by", "users", "RESTRICT")
    \cup Unique("documents", "storage_path")
    \cup Index("documents", {"ix_documents_course_id", "ix_documents_uploaded_by", "ix_documents_checksum"})

TaskModel ==
  Table("tasks", {"course_id", "title", "task_type", "status", "priority", "source", "is_deleted"},
        {"created_at", "updated_at"},
        {"source_document_id", "description", "due_at", "estimated_minutes", "completed_at", "deleted_at"})
    \cup Type("tasktype", {"ASSIGNMENT", "EXAM", "QUIZ", "READING", "PROJECT", "PRESENTATION", "OTHER"})
    \cup Type("taskstatus", {"TODO", "IN_PROGRESS", "COMPLETED", "CANCELLED"})
    \cup Type("taskpriority", {"LOW", "MEDIUM", "HIGH", "URGENT"})
    \cup Type("tasksource", {"MANUAL", "DOCUMENT_EXTRACTION", "AI_GENERATED"})
    \cup Typed("tasks", "task_type", "tasktype") \cup Typed("tasks", "status", "taskstatus")
    \cup Typed("tasks", "priority", "taskpriority") \cup Typed("tasks", "source", "tasksource")
    \cup Fk("tasks", "course_id", "courses", "NO ACTION")
    \cup Fk("tasks", "source_document_id", "documents", "SET NULL")
    \cup Index("tasks", {"ix_tasks_course_id", "ix_tasks_status", "ix_tasks_due_at"})
    \cup Check("tasks", "ck_tasks_estimated_minutes_nonnegative")

EmailVerificationTokenModel ==
  Table("email_verification_tokens", {"user_id", "token_hash", "expires_at"}, {"created_at"}, {"used_at"})
    \cup Fk("email_verification_tokens", "user_id", "users", "NO ACTION")
    \cup UIndex("email_verification_tokens", {"ix_email_verification_tokens_token_hash"})
    \cup Index("email_verification_tokens", {"ix_email_verification_tokens_user_id"})

PasswordResetTokenModel ==
  Table("password_reset_tokens", {"user_id", "token_hash", "expires_at"}, {"created_at"}, {"used_at"})
    \cup Fk("password_reset_tokens", "user_id", "users", "NO ACTION")
    \cup UIndex("password_reset_tokens", {"ix_password_reset_tokens_token_hash"})
    \cup Index("password_reset_tokens", {"ix_password_reset_tokens_user_id"})

RefreshTokenModel ==
  Table("refresh_tokens", {"user_id", "token_hash", "family_id", "expires_at"}, {"issued_at"}, {"revoked_at"})
    \cup Fk("refresh_tokens", "user_id", "users", "NO ACTION")
    \cup UIndex("refresh_tokens", {"ix_refresh_tokens_token_hash"})
    \cup Index("refresh_tokens", {"ix_refresh_tokens_family_id", "ix_refresh_tokens_user_id"})

ExtractionCandidateModel ==
  Table("extraction_candidates", {"document_id", "candidate_type", "payload"}, {"status", "created_at"},
        {"source_page", "created_task_id", "reviewed_at", "reviewed_by"})
    \cup Type("candidatetype", {"COURSE_INFO", "ASSIGNMENT", "EXAM", "IMPORTANT_DATE", "GRADING_POLICY"})
    \cup Type("candidatestatus", {"PENDING", "ACCEPTED", "REJECTED"})
    \cup Typed("extraction_candidates", "candidate_type", "candidatetype")
    \cup Typed("extraction_candidates", "status", "candidatestatus")
    \cup Fk("extraction_candidates", "document_id", "documents", "CASCADE")
    \cup Fk("extraction_candidates", "created_task_id", "tasks", "SET NULL")
    \cup Fk("extraction_candidates", "reviewed_by", "users", "NO ACTION")
    \cup Index("extraction_candidates", {"ix_extraction_candidates_document_id"})

DocumentChunkModel ==
  Table("document_chunks", {"document_id", "course_id", "user_id", "chunk_index", "content", "start_page",
                            "end_page"}, {"created_at"}, {"embedding", "embedding_model"})
    \cup Typed("document_chunks", "embedding", "vector")
    \cup Fk("document_chunks", "document_id", "documents", "CASCADE")
    \cup Fk("document_chunks", "course_id", "courses", "CASCADE")
    \cup Fk("document_chunks", "user_id", "users", "RESTRICT")
    \cup Index("document_chunks", {"ix_document_chunks_document_id", "ix_document_chunks_course_id",
                                   "ix_document_chunks_user_id"})

ConversationModel ==
  Table("conversations", {"user_id"}, {"is_deleted", "created_at", "updated_at"}, {"title"})
    \cup Fk("conversations", "user_id", "users", "CASCADE")
    \cup Index("conversations", {"ix_conversations_user_id"})

MessageModel ==
  Table("messages", {"conversation_id", "role", "content"}, {"created_at"},
        {"grounded", "citations", "answer_mode"})
    \cup Type("messagerole", {"USER", "ASSISTANT"})
    \cup Type("answermode", {"GENERAL", "GROUNDED", "MISSING_PERSONAL_CONTEXT"})
    \cup Typed("messages", "role", "messagerole") \cup Typed("messages", "answer_mode", "answermode")
    \cup Fk("messages", "conversation_id", "conversations", "CASCADE")
    \cup Index("messages", {"ix_messages_conversation_id"})

RoadmapModel ==
  Table("semester_roadmaps", {"semester_id"}, {"status", "version", "created_at", "updated_at"},
        {"generated_at", "generation_error", "recommendations_unavailable_reason"})
    \cup Type("roadmapgenerationstatus", JobStates)
    \cup Typed("semester_roadmaps", "status", "roadmapgenerationstatus")
    \cup Fk("semester_roadmaps", "semester_id", "semesters", "CASCADE")
    \cup UIndex("semester_roadmaps", {"ix_semester_roadmaps_semester_id"})

RoadmapWeekModel ==
  Table("roadmap_weeks", {"roadmap_id", "week_number", "start_date", "end_date"}, {}, {})
    \cup Unique("roadmap_weeks", "roadmap_id, week_number")
    \cup Fk("roadmap_weeks", "roadmap_id", "semester_roadmaps", "CASCADE")
    \cup Index("roadmap_weeks", {"ix_roadmap_weeks_roadmap_id"})

RoadmapItemModel ==
  Table("roadmap_items", {"week_id", "roadmap_id", "item_type", "origin", "title"},
        {"is_user_edited", "created_at", "updated_at"}, {"description", "task_id", "course_id", "due_date"})
    \cup Type("roadmapitemtype", {"MILESTONE", "ASSIGNMENT_PREPARATION", "EXAM_PREPARATION", "RECOMMENDATION"})
    \cup Type("roadmapitemorigin", {"DETERMINISTIC", "AI_GENERATED"})
    \cup Typed("roadmap_items", "item_type", "roadmapitemtype")
    \cup Typed("roadmap_items", "origin", "roadmapitemorigin")
    \cup Fk("roadmap_items", "week_id", "roadmap_weeks", "CASCADE")
    \cup Fk("roadmap_items", "roadmap_id", "semester_roadmaps", "CASCADE")
    \cup Fk("roadmap_items", "task_id", "tasks", "SET NULL")
    \cup Fk("roadmap_items", "course_id", "courses", "SET NULL")
    \cup Index("roadmap_items", {"ix_roadmap_items_roadmap_id", "ix_roadmap_items_task_id",
                                 "ix_roadmap_items_week_id"})

CatalogModel ==
  Table("course_catalog_entries", {"institution_name", "course_code", "course_name", "credits"},
        {"created_at"}, {"category"})
    \cup Unique("course_catalog_entries", "institution_name, course_code")
    \cup Index("course_catalog_entries", {"ix_course_catalog_entries_institution_name"})
    \cup Table("prerequisites", {"course_id", "required_course_id"}, {}, {})
    \cup Unique("prerequisites", "course_id, required_course_id")
    \cup Fk("prerequisites", "course_id", "course_catalog_entries", "CASCADE")
    \cup Fk("prerequisites", "required_course_id", "course_catalog_entries", "CASCADE")
    \cup Index("prerequisites", {"ix_prerequisites_course_id"})

DegreeModel ==
  Table("degree_programs", {"institution_name", "name", "catalog_year"}, {"created_at"}, {})
    \cup Index("degree_programs", {"ix_degree_programs_institution_name"})
    \cup Table("degree_requirements", {"degree_program_id", "category"}, {}, {"required_course_id", "min_credits"})
    \cup Fk("degree_requirements", "degree_program_id", "degree_programs", "CASCADE")
    \cup Fk("degree_requirements", "required_course_id", "course_catalog_entries", "SET NULL")
    \cup Index("degree_requirements", {"ix_degree_requirements_degree_program_id"})
    \cup Table("student_degree_progress", {"user_id", "degree_program_id"}, {"declared_at"}, {})
    \cup Unique("student_degree_progress", "user_id")
    \cup Fk("student_degree_progress", "user_id", "users", "CASCADE")
    \cup Fk("student_degree_progress", "degree_program_id", "degree_programs", "CASCADE")
    \cup Index("student_degree_progress", {"ix_student_degree_progress_user_id"})

CalendarModel ==
  Table("calendar_connections", {"user_id", "access_token", "refresh_token", "token_expires_at"},
        {"connected_at"}, {})
    \cup Unique("calendar_connections", "user_id")
    \cup Fk("calendar_connections", "user_id", "users", "CASCADE")
    \cup Index("calendar_connections", {"ix_calendar_connections_user_id"})
    \cup Table("calendar_syncs", {"task_id", "sync_status"}, {},
               {"provider_event_id", "sync_error", "last_synced_at"})
    \cup Type("calendarsyncstatus", {"SYNCED", "FAILED"})
    \cup Typed("calendar_syncs", "sync_status", "calendarsyncstatus")
    \cup Unique("calendar_syncs", "task_id")
    \cup Fk("calendar_syncs", "task_id", "tasks", "CASCADE")
    \cup Index("calendar_syncs", {"ix_calendar_syncs_task_id"})

NotificationModel ==
  Table("notification_preferences", {"user_id", "notification_type", "enabled"}, {}, {})
    \cup Type("notificationtype",
              {"ASSIGNMENT_DUE", "EXAM_COUNTDOWN", "WEEKLY_PLAN", "OVERDUE_TASK", "RECOVERY_PLAN"})
    \cup Typed("notification_preferences", "notification_type", "notificationtype")
    \cup Unique("notification_preferences", "user_id, notification_type")
    \cup Fk("notification_preferences", "user_id", "users", "CASCADE")
    \cup Index("notification_preferences", {"ix_notification_preferences_user_id"})
    \cup Table("notification_logs", {"user_id", "notification_type", "reference_id", "subject"},
               {"sent_at"}, {"provider_message_id"})
    \cup Typed("notification_logs", "notification_type", "notificationtype")
    \cup Unique("notification_logs", "user_id, notification_type, reference_id")
    \cup Fk("notification_logs", "user_id", "users", "CASCADE")
    \cup Index("notification_logs", {"ix_notification_logs_user_id"})

Models ==
  UNION {UserModel, SemesterModel, CourseModel, DocumentModel, TaskModel, EmailVerificationTokenModel,
         PasswordResetTokenModel, RefreshTokenModel, ExtractionCandidateModel, DocumentChunkModel,
         ConversationModel, MessageModel, RoadmapModel, RoadmapWeekModel, RoadmapItemModel, CatalogModel,
         DegreeModel, CalendarModel, NotificationModel}

-----------------------------------------------------------------------------
(* Properties *)

Leftovers ==   \* what a downgrade leaves, and a293 no longer uses
  Type("documentstatus", {"PENDING", "PROCESSING", "COMPLETED", "FAILED"}) \cup Type("vector", {})
    \cup Type("taskstatus", {"TODO", "IN_PROGRESS", "COMPLETED", "OVERDUE"})

Unused == Leftovers \ Models

(* With every revision applied, in whichever order the branches were        *)
(* upgraded and whatever was downgraded meanwhile, the database holds what  *)
(* the models declare: tables, columns and their nullability and defaults,  *)
(* enum labels, indexes, unique constraints, foreign keys.                  *)
HeadMatchesModels ==
  applied = Revisions =>
    LET compared(S) == {e \in S : e[1] \notin {"check", "where"}} \ Unused
    IN  compared(schema) = compared(Models)

Early  == Revisions \ Merged
Closed == {A \in SUBSET Early : \A r \in A : Parents[r] \subseteq A}
            \cup {{Order[i] : i \in 1..n} : n \in 12..Len(Order)}
SchemaOf == [A \in Closed |->
  FoldLeft(LAMBDA s, r : IF r \in A THEN Run(Up(r), s, {}).schema ELSE s, {}, Order)]

(* The revisions applied determine the schema, up to enum types left by a   *)
(* downgrade: the branches of the graph can be upgraded in any order, and a *)
(* downgrade that succeeds undoes its upgrade exactly.                      *)
SchemaFollowsRevisions ==
  IF applied = {} THEN schema \subseteq Leftovers
  ELSE schema \ Leftovers = SchemaOf[applied] \ Leftovers

(* No revision changes what a student finished: a COMPLETED task or         *)
(* document stays COMPLETED through every upgrade and downgrade that keeps  *)
(* its row.                                                                 *)
CompletedSurvives ==
  [][\A t \in {"tasks", "documents"} :
       <<t, "COMPLETED">> \in rows /\ t \in Populated([rows |-> rows'])
         => <<t, "COMPLETED">> \in rows']_migVars
=============================================================================

----------------------------- MODULE MCJobData -----------------------------
(***************************************************************************)
(* A small instance of JobData for TLC: two children, the first with       *)
(* three templates and two images.                                         *)
(***************************************************************************)
EXTENDS JobData, TLC

CONSTANTS c1, c2

TwoChildren == <<c1, c2>>
Keys == {"k"}
OneKeyOrNone == {{}, {"k"}}
Uppercase == "in" :> "IN" @@ "IN" :> "IN" @@ "topic" :> "TOPIC"

From(source, key) == [source |-> source, key |-> key]
Node(mapping, env) == [mapping |-> mapping, env |-> Object("job", env, 0)]
Image(env) == [env |-> Object("image", env, 0)]

\* Two inputs with one upper-case name; one that displaces TOPIC; entries that
\* stand for nothing.
TwoTemplates == c1 :>
        {Node("in" :> From("parent", "k") @@ "IN" :> From("constant", "v"), {"IN", "A"}),
         Node("topic" :> From("parent", "k") @@ "in" :> From("payload", "k"), {"TOPIC"}),
         Node("in" :> From("unknown", "k") @@ "IN" :> From("payload", "none")
              @@ "topic" :> From("constant", None), {"JOB_ID"})}
    @@ c2 :> {Node("in" :> From("parent", "k"), {"A"})}
TwoImages == c1 :> {Image({"IN", "A", "B"}), Image({"JOB_ID"})} @@ c2 :> {Image({"IN", "A"})}

=============================================================================

---------------------------- MODULE MCBundleWrite ----------------------------
(* Instances of BundleWrite for TLC. *)
EXTENDS BundleWrite

MCPathRank ==
  [p \in {".env", ".env.example", "README.md", "bundle.manifest.json",
          "checksums.txt", "configuration/bindings/a.json",
          "provenance.json"} |->
     CASE p = ".env" -> 1 [] p = ".env.example" -> 2 [] p = "README.md" -> 3
       [] p = "bundle.manifest.json" -> 4 [] p = "checksums.txt" -> 5
       [] p = "configuration/bindings/a.json" -> 6
       [] p = "provenance.json" -> 7]
MCPaths == DOMAIN MCPathRank

\* Two payloads that share a path, each with a path the other has not.
MCPayloads ==
  {<<File("README.md", Text("read")), File(".env.example", Text("keys one"))>>,
   <<File(".env.example", Text("keys two")),
     File("configuration/bindings/a.json", Text("a"))>>}

\* A CDCBinding a and a LineageBinding a.
MCTwoBindings ==
  {<<File(".env.example", Text("keys one")),
     File("configuration/bindings/a.json", Text("CDCBinding a")),
     File("configuration/bindings/a.json", Text("LineageBinding a"))>>}
=============================================================================

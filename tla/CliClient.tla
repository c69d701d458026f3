----------------------------- MODULE CliClient ------------------------------
(***************************************************************************)
(* The commands of mddb-cli.  A command checks its flags, sends one HTTP   *)
(* request through the Go client and reads the answer: it may fail before  *)
(* the request leaves, with the server's refusal, or after the server has  *)
(* done all it was asked to (the answer is lost or cannot be read).        *)
(***************************************************************************)
EXTENDS HttpApi

Gql == INSTANCE GraphqlApi

\* The server's answer reaches the client; reading it may fail.
Unread == Unless("unread")

\* One request, sent with the method that its handler asks for.
Do(handler) ==
  <<Failed>> \o SelectSeq(handler, LAMBDA s : s # BadMethod) \o <<Back, Unread>>

Command(path, steps) == [path |-> path, steps |-> steps]
\* Without --json the body is parsed, which may fail too.
Printed(path, handler) == Command(path, Do(handler) \o <<Unread>>)
Plain(path, handler) == Command(path, Do(handler))
\* The flags that are asked for before anything is sent.
Needs(why, command) == [command EXCEPT !.steps = <<Unless(why)>> \o @]

\* The content is read from a file or from the standard input first.
addCmd == Needs("input", Printed("http_add", guardWrite(handleAdd)))
getCmd == Printed("http_get", handleGet)
searchCmd == Printed("http_search", handleSearch)
\* The body is printed as it is, or written to a file.
exportCmd == Printed("http_export", handleExport)
backupCmd == Printed("http_backup", handleBackup)
restoreCmd == Printed("http_restore", guardWrite(handleRestore))
truncateCmd == Plain("http_truncate", guardWrite(handleTruncate))
statsCmd == Printed("http_stats", handleStats)
vectorSearchCmd == Needs("input", Printed("http_vector_search", handleVectorSearch))
vectorReindexCmd == Printed("http_vector_reindex", guardWrite(handleVectorReindex))
vectorStatsCmd == Printed("http_vector_stats", handleVectorStats)
importURLCmd == Printed("http_import_url", guardWrite(handleImportURL))
setTTLCmd == Plain("http_set_ttl", guardWrite(handleSetTTL))
ftsCmd == Needs("input", Printed("http_fts", handleFTS))
webhookRegisterCmd == Needs("input", Printed("http_webhooks", <<Disabled>> \o WebhooksPost))
webhookListCmd == Printed("http_webhooks", <<Disabled>> \o WebhooksGet)
webhookDeleteCmd == Plain("http_webhook_delete", guardWrite(handleWebhookDelete))
\* The shorthand -s of its flag is that of the root's --server: cobra panics when it
\* merges the two, before the command runs.
schemaSetCmd == Command("http_schema_set", <<Refuse("panic")>>)
schemaGetCmd == Needs("input", Printed("http_schema_get", handleSchemaGet))
schemaDeleteCmd == Needs("input", Plain("http_schema_delete", guardWrite(handleSchemaDelete)))
schemaListCmd == Printed("http_schema_list", handleSchemaList)
validateCmd == Needs("input", Printed("http_validate", handleValidate))
loginCmd == Printed("http_login", handleAuthLogin)
\* The three commands for keys ask for --token.
apiKeyCreateCmd == Needs("access", Printed("http_api_key", handleAuthAPIKey))
apiKeyListCmd == Needs("access", Printed("http_api_keys", handleAuthAPIKeysList))
apiKeyDeleteCmd == Needs("access", Plain("http_api_key_delete", handleAuthAPIKeyDelete))
\* A query or mutation of one field; the variables are parsed first.  The error of a
\* field comes back in a body that is printed like any other.
graphqlCmd(field, resolver) == Needs("input", Printed(field, resolver))

Commands ==
  {addCmd, getCmd, searchCmd, exportCmd, backupCmd, restoreCmd, truncateCmd, statsCmd, vectorSearchCmd,
   vectorReindexCmd, vectorStatsCmd, importURLCmd, setTTLCmd, ftsCmd, webhookRegisterCmd, webhookListCmd,
   webhookDeleteCmd, schemaSetCmd, schemaGetCmd, schemaDeleteCmd, schemaListCmd, validateCmd, loginCmd,
   apiKeyCreateCmd, apiKeyListCmd, apiKeyDeleteCmd}
  \union {graphqlCmd(f, Gql!Query[f]) : f \in DOMAIN Gql!Query}
  \union {graphqlCmd(f, Gql!Mutation[f]) : f \in DOMAIN Gql!Mutation}
=============================================================================

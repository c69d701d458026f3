----------------------------- MODULE GraphqlApi -----------------------------
(***************************************************************************)
(* The GraphQL resolvers.  The adapter asks for authentication and for     *)
(* permissions and then calls the direct client or the AuthManager; no     *)
(* mutation asks for the mode, and the directives of the schema pass every *)
(* field on to its resolver.                                               *)
(***************************************************************************)
EXTENDS RequestSteps

C == INSTANCE DirectClient

requireAuthenticated == <<Forbidden>>
CheckPermission == <<Forbidden>>
requireAdmin == <<Forbidden, Forbidden>>
\* Every resolver of a collection's documents: a user with a permission on it.
Permitted == requireAuthenticated \o CheckPermission

(***************************************************************************)
(* graphql_resolvers.go                                                    *)
(***************************************************************************)
GetDocument == Permitted \o C!Get
SearchDocuments == Permitted \o C!Search
\* The time to live is a second write, whose failure leaves the document stored.
AddDocumentMutation == Permitted \o C!Add \o <<Maybe(C!SetTTL)>>
UpdateDocument == Permitted \o C!UpdateDocument
DeleteDocument == Permitted \o C!Delete
DeleteCollection == Permitted \o C!DeleteCollection
AddBatch == Permitted \o C!AddBatch
IngestMutation == Permitted \o C!Ingest
SetTTL == Permitted \o C!SetTTL
ImportURL == Permitted \o C!ImportURL
VectorSearch == Permitted \o C!VectorSearch
VectorStats == requireAuthenticated \o C!VectorStats
VectorReindex == Permitted \o C!VectorReindex \o C!VectorStats
FullTextSearch == Permitted \o C!FTSSearch

(***************************************************************************)
(* graphql_admin.go                                                        *)
(***************************************************************************)
GetStats == requireAuthenticated \o C!Stats
GetSchema == requireAuthenticated \o C!GetSchema
ListSchemas == requireAuthenticated \o C!ListSchemas
SetSchema == requireAdmin \o C!SetSchema
DeleteSchema == requireAdmin \o C!DeleteSchema
ValidateDocument == Permitted \o C!ValidateDocument
ListWebhooks == requireAdmin \o C!ListWebhooks
RegisterWebhook == requireAdmin \o C!RegisterWebhook
DeleteWebhook == requireAdmin \o C!DeleteWebhook
Login == <<Disabled, Forbidden, Failed>>
Me == requireAuthenticated \o <<Maybe(<<Done>>), NotFound>>
ListUsers == requireAdmin \o <<Maybe(<<Done>>)>>
Register == requireAdmin \o <<Disabled, Unless("exists")>> \o Txn({"auth"}, {})
CreateAPIKey == requireAuthenticated \o <<Disabled>> \o Txn({"auth"}, {})
SetPermission == requireAdmin \o <<Disabled>> \o Txn({"auth"}, {})
UserPermissionsList == requireAdmin \o <<Maybe(<<Done>>)>>
ListGroups == requireAdmin \o <<Maybe(<<Done>>)>>
GroupPermissionsList == requireAdmin \o <<Maybe(<<Done>>)>>
CreateGroup == requireAdmin \o <<Disabled, Unless("exists")>> \o Txn({"auth"}, {})
UpdateGroup == requireAdmin \o <<Disabled, NotFound>> \o Txn({"auth"}, {})
DeleteGroup == requireAdmin \o <<Disabled, NotFound>> \o Txn({"auth"}, {})
SetGroupPermission == requireAdmin \o <<Disabled, NotFound>> \o Txn({"auth"}, {})

(***************************************************************************)
(* The fields of the schema.                                               *)
(***************************************************************************)
Mutation ==
  [gql_add_document |-> AddDocumentMutation, gql_update_document |-> UpdateDocument,
   gql_delete_document |-> DeleteDocument, gql_delete_collection |-> DeleteCollection,
   gql_add_batch |-> AddBatch, gql_ingest_documents |-> IngestMutation,
   gql_vector_reindex |-> VectorReindex, gql_set_ttl |-> SetTTL, gql_import_url |-> ImportURL,
   gql_register_webhook |-> RegisterWebhook, gql_delete_webhook |-> DeleteWebhook,
   gql_set_schema |-> SetSchema, gql_delete_schema |-> DeleteSchema,
   gql_validate_document |-> ValidateDocument, gql_login |-> Login, gql_register |-> Register,
   gql_create_api_key |-> CreateAPIKey, gql_set_permission |-> SetPermission,
   gql_create_group |-> CreateGroup, gql_update_group |-> UpdateGroup, gql_delete_group |-> DeleteGroup,
   gql_set_group_permission |-> SetGroupPermission]
Query ==
  [gql_document |-> GetDocument, gql_search |-> SearchDocuments, gql_vector_search |-> VectorSearch,
   gql_vector_stats |-> VectorStats, gql_fts |-> FullTextSearch, gql_stats |-> GetStats,
   gql_webhooks |-> ListWebhooks, gql_schema |-> GetSchema, gql_schemas |-> ListSchemas, gql_me |-> Me,
   gql_users |-> ListUsers, gql_groups |-> ListGroups, gql_user_permissions |-> UserPermissionsList,
   gql_group_permissions |-> GroupPermissionsList]
=============================================================================

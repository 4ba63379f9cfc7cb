----------------------------- MODULE MCMigration -----------------------------
(***************************************************************************)
(* Migration with the program's own tables, columns and indexes            *)
(* (src/db/migrate.ts), for model checking.                                *)
(***************************************************************************)
EXTENDS Migration

MCSchema == <<"contracts", "contract_deliveries", "transactions">>

MCWidenedColumns ==
    << [table |-> "transactions", column |-> "total_price"],
       [table |-> "transactions", column |-> "agent_credits"] >>

MCIndexes ==
    << [table |-> "contract_deliveries", name |-> "idx_deliveries_contract"],
       [table |-> "transactions", name |-> "idx_transactions_occurred"],
       [table |-> "transactions", name |-> "idx_transactions_ship"] >>
=============================================================================

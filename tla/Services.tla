------------------------------- MODULE Services -------------------------------
(***************************************************************************)
(* The services around the ledger, side by side: the desktop agent, the    *)
(* backups, the portfolio accounting, balance adjustments, risk limits,    *)
(* the broker feed, the provider sessions, the cache of valuations, the    *)
(* sources of prices and the workspaces of the web application.            *)
(*                                                                         *)
(* They share no state: each has tables, files and locks of its own.  What *)
(* holds of one therefore does not depend on how its steps are interleaved *)
(* with those of the others, and it is enough to look at the behaviours in *)
(* which one of them is at work, chosen in the initial state.              *)
(***************************************************************************)
EXTENDS LocalAgent, Backups, Accounting, Balances, RiskLimits, BrokerFeed, Providers,
        ValuationCache, PriceSources, Workspaces

VARIABLE service   \* the one at work

ServiceNames == {"agent", "backups", "accounting", "balances", "risk", "broker", "providers",
                     "cache", "prices", "workspaces"}

allVars == <<service, agentVars, backupVars, accountingVars, balanceVars, riskVars, brokerVars,
             providerVars, cacheVars, priceVars, workspaceVars>>

\* What is left open in an initial state matters to the service at work only.
ServicesInit ==
    /\ service \in ServiceNames
    /\ AgentInit /\ BackupInit /\ BalanceInit /\ RiskInit /\ BrokerInit /\ ProviderInit
    /\ AccountingInit /\ CacheInit /\ PriceInit /\ WorkspaceInit
    /\ service # "accounting" =>
          policy = [method |-> "FIFO", commissions |-> TRUE, fees |-> TRUE]
    /\ service # "balances" => opening = None /\ current = 1
    /\ service # "providers" => versions = Unimported
    /\ service # "prices" => observations = {} /\ mode = "AUTO"
    /\ service # "workspaces" => born = 1

AgentWorks ==
    /\ service = "agent"
    /\ AgentNext
    /\ UNCHANGED <<service, backupVars, accountingVars, balanceVars, riskVars, brokerVars,
                   providerVars, cacheVars, priceVars, workspaceVars>>

BackupWorks ==
    /\ service = "backups"
    /\ BackupNext
    /\ UNCHANGED <<service, agentVars, accountingVars, balanceVars, riskVars, brokerVars,
                   providerVars, cacheVars, priceVars, workspaceVars>>

AccountingWorks ==
    /\ service = "accounting"
    /\ AccountingNext
    /\ UNCHANGED <<service, agentVars, backupVars, balanceVars, riskVars, brokerVars,
                   providerVars, cacheVars, priceVars, workspaceVars>>

BalanceWorks ==
    /\ service = "balances"
    /\ BalanceNext
    /\ UNCHANGED <<service, agentVars, backupVars, accountingVars, riskVars, brokerVars,
                   providerVars, cacheVars, priceVars, workspaceVars>>

RiskWorks ==
    /\ service = "risk"
    /\ RiskNext
    /\ UNCHANGED <<service, agentVars, backupVars, accountingVars, balanceVars, brokerVars,
                   providerVars, cacheVars, priceVars, workspaceVars>>

BrokerWorks ==
    /\ service = "broker"
    /\ BrokerNext
    /\ UNCHANGED <<service, agentVars, backupVars, accountingVars, balanceVars, riskVars,
                   providerVars, cacheVars, priceVars, workspaceVars>>

ProviderWorks ==
    /\ service = "providers"
    /\ ProviderNext
    /\ UNCHANGED <<service, agentVars, backupVars, accountingVars, balanceVars, riskVars,
                   brokerVars, cacheVars, priceVars, workspaceVars>>

CacheWorks ==
    /\ service = "cache"
    /\ CacheNext
    /\ UNCHANGED <<service, agentVars, backupVars, accountingVars, balanceVars, riskVars,
                   brokerVars, providerVars, priceVars, workspaceVars>>

PriceWorks ==
    /\ service = "prices"
    /\ PriceNext
    /\ UNCHANGED <<service, agentVars, backupVars, accountingVars, balanceVars, riskVars,
                   brokerVars, providerVars, cacheVars, workspaceVars>>

WorkspaceWorks ==
    /\ service = "workspaces"
    /\ WorkspaceNext
    /\ UNCHANGED <<service, agentVars, backupVars, accountingVars, balanceVars, riskVars,
                   brokerVars, providerVars, cacheVars, priceVars>>

ServicesNext ==
    \/ AgentWorks \/ BackupWorks \/ AccountingWorks \/ BalanceWorks
    \/ RiskWorks \/ BrokerWorks \/ ProviderWorks \/ CacheWorks
    \/ PriceWorks \/ WorkspaceWorks

ServicesSpec == ServicesInit /\ [][ServicesNext]_allVars

\* The tables, files, locks and sessions of the service at work hold what they may hold;
\* those of the others are as they were at first.
ServicesTypeOK ==
    CASE service = "agent" -> AgentTypeOK
      [] service = "backups" -> BackupTypeOK
      [] service = "accounting" -> AccountingTypeOK
      [] service = "balances" -> BalanceTypeOK
      [] service = "risk" -> RiskTypeOK
      [] service = "broker" -> BrokerTypeOK
      [] service = "providers" -> ProviderTypeOK
      [] service = "cache" -> CacheTypeOK
      [] service = "prices" -> PriceTypeOK
      [] service = "workspaces" -> WorkspaceTypeOK
=============================================================================

-------------------------------- MODULE MCServices --------------------------------
(***************************************************************************)
(* The components that share no state with each other, checked in one run. *)
(*                                                                         *)
(* Nothing couples them in the code, so that an interleaving of two of     *)
(* them shows nothing that each alone does not: "part" chooses one of      *)
(* them, and the others keep one initial state.  Every behaviour of the    *)
(* run is a behaviour of the specification of one component, and every     *)
(* behaviour of each of them occurs.                                       *)
(***************************************************************************)
EXTENDS EngineLifecycle, Maintenance, ConfigFile, LogStore, LogFile, RateLimiter,
        MarketSpecs, LossLimit, BarAggregation, Backtest, WalkForward

VARIABLE part

Parts == {"life", "maint", "config", "store", "file", "rate", "specs", "loss", "bars",
          "backtest", "walk"}

allVars == <<part, lifeVars, maintVars, configVars, storeVars, fileVars, rateVars,
             specsVars, lossVars, barVars, backtestVars, walkVars>>

Rest(p) ==
  /\ UNCHANGED part
  /\ p # "life" => UNCHANGED lifeVars
  /\ p # "maint" => UNCHANGED maintVars
  /\ p # "config" => UNCHANGED configVars
  /\ p # "store" => UNCHANGED storeVars
  /\ p # "file" => UNCHANGED fileVars
  /\ p # "rate" => UNCHANGED rateVars
  /\ p # "specs" => UNCHANGED specsVars
  /\ p # "loss" => UNCHANGED lossVars
  /\ p # "bars" => UNCHANGED barVars
  /\ p # "backtest" => UNCHANGED backtestVars
  /\ p # "walk" => UNCHANGED walkVars

\* Components with several initial states have one while they are not chosen.
Pinned ==
  /\ part # "config" =>
       /\ envSet
       /\ configPath = CHOOSE i \in Inodes : TRUE
       /\ content[configPath] = CHOOSE c \in Whole : TRUE
  /\ part # "loss" => epoch = 0
  /\ part # "backtest" => rule = "skip"
  /\ part # "walk" => dataSource = "csv"

ServicesInit ==
  /\ part \in Parts
  /\ LifeInit /\ MaintInit /\ ConfigInit /\ StoreInit /\ FileInit /\ RateInit
  /\ SpecsInit /\ LossInit /\ BarsInit /\ BacktestInit /\ WalkInit
  /\ Pinned

ServicesNext ==
  \/ part = "life" /\ LifeNext /\ Rest("life")
  \/ part = "maint" /\ MaintNext /\ Rest("maint")
  \/ part = "config" /\ ConfigNext /\ Rest("config")
  \/ part = "store" /\ StoreNext /\ Rest("store")
  \/ part = "file" /\ FileNext /\ Rest("file")
  \/ part = "rate" /\ RateNext /\ Rest("rate")
  \/ part = "specs" /\ SpecsNext /\ Rest("specs")
  \/ part = "loss" /\ LossNext /\ Rest("loss")
  \/ part = "bars" /\ BarsNext /\ Rest("bars")
  \/ part = "backtest" /\ BacktestNext /\ Rest("backtest")
  \/ part = "walk" /\ WalkNext /\ Rest("walk")

ServicesSpec ==
  /\ ServicesInit /\ [][ServicesNext]_allVars
  /\ WF_allVars(part = "life" /\ ShutdownSteps /\ Rest("life"))
=============================================================================

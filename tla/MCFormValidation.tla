--------------------------- MODULE MCFormValidation ---------------------------
(* The two forms of the web application, for TLC. *)
EXTENDS FormValidation

MCForms == [AddTrucker |-> {"Name", "VehicleNumber"},
            SetRules |-> {"MaxSpeed", "MinSpeed", "MaxAccel"}]

(* Name is [Required]; MaxSpeed and MinSpeed are int, MaxAccel is a float. *)
MCDataVal == [Name |-> {"required"}, VehicleNumber |-> {},
              MaxSpeed |-> {"required"}, MinSpeed |-> {"required"},
              MaxAccel |-> {"required", "number"}]

MCNumberType == {"MaxSpeed", "MinSpeed"}

MCInitial == [Name |-> "empty", VehicleNumber |-> "empty",
              MaxSpeed |-> "number", MinSpeed |-> "number", MaxAccel |-> "number"]

MCOffers == [Name |-> {"empty", "blank", "text"}, VehicleNumber |-> {"empty", "text"},
             MaxSpeed |-> {"empty", "text", "fraction", "huge", "number"},
             MinSpeed |-> {"empty", "text", "fraction", "huge", "number"},
             MaxAccel |-> {"empty", "blank", "text", "number"}]

(* A text in an input of type number is NaN to the validator: not empty. *)
MCPasses == [required |-> {"blank", "text", "fraction", "huge", "number"},
             number |-> {"empty", "fraction", "huge", "number"},
             __dummy__ |-> {"empty", "blank", "text", "fraction", "huge", "number"}]

MCNative == [f \in DOMAIN MCOffers |->
                IF f \in MCNumberType THEN {"empty", "huge", "number"} ELSE MCOffers[f]]

MCBinds == [Name |-> {"text"}, VehicleNumber |-> {"empty", "text"},
            MaxSpeed |-> {"number"}, MinSpeed |-> {"number"}, MaxAccel |-> {"number"}]

===============================================================================

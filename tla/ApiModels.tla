------------------------------- MODULE ApiModels -------------------------------
(***************************************************************************)
(* The models of the generated comdirect API client                        *)
(* (internal/bank/comdirect/models): for each of them, T, the fields of    *)
(* its struct in the order of their declaration, with the constraints      *)
(* their comments state; T \o "Validate", what Validate checks of a field; *)
(* and T \o "ContextValidate", what ContextValidate checks of it.  A field *)
(* without an entry is not looked at.                                      *)
(*                                                                         *)
(* Constraints no value breaks are left out: a minimum length of zero, or  *)
(* of one for a string that counts as not set when it is empty.            *)
(***************************************************************************)

\* A scalar or a list of scalars, and the constraints on its value.
Value(name, rules) == [name |-> name, kind |-> "value", of |-> "", rules |-> rules]
\* A pointer to a model.
Object(name, of, rules) == [name |-> name, kind |-> "object", of |-> of, rules |-> rules]
\* A slice of pointers to models.
List(name, of, rules) == [name |-> name, kind |-> "list", of |-> of, rules |-> rules]
\* A map to models, none of which may be the zero value.
Map(name, of) == [name |-> name, kind |-> "list", of |-> of, rules |-> {"required"}]

NoChecks == [f \in {} |-> {}]

Account ==
  <<Value("accountDisplayId", {"readOnly"}), Value("accountId", {"readOnly"}),
    Object("accountType", "EnumText", {"readOnly"}), Value("clientId", {"readOnly"}),
    Object("creditLimit", "AmountValue", {"readOnly"}),
    Object("currency", "CurrencyString", {"readOnly"}), Value("iban", {"readOnly"})>>
AccountValidate ==
  [accountType |-> {"nested"}, creditLimit |-> {"nested"}, currency |-> {"nested"}]
AccountContextValidate ==
  [accountDisplayId |-> {"readOnly"}, accountId |-> {"readOnly"},
   accountType |-> {"nested"}, clientId |-> {"readOnly"}, creditLimit |-> {"nested"},
   currency |-> {"nested"}, iban |-> {"readOnly"}]

AccountBalance ==
  <<Object("account", "Account", {"readOnly"}), Value("accountId", {"readOnly"}),
    Object("availableCashAmount", "AmountValue", {"readOnly"}),
    Object("availableCashAmountEUR", "AmountValue", {"readOnly"}),
    Object("balance", "AmountValue", {"readOnly"}),
    Object("balanceEUR", "AmountValue", {"readOnly"})>>
AccountBalanceValidate ==
  [account |-> {"nested"}, availableCashAmount |-> {"nested"},
   availableCashAmountEUR |-> {"nested"}, balance |-> {"nested"}, balanceEUR |-> {"nested"}]
AccountBalanceContextValidate ==
  [account |-> {"nested"}, accountId |-> {"readOnly"}, availableCashAmount |-> {"nested"},
   availableCashAmountEUR |-> {"nested"}, balance |-> {"nested"}, balanceEUR |-> {"nested"}]

AccountInformation ==
  <<Value("bic", {"readOnly"}), Value("holderName", {"readOnly"}),
    Value("iban", {"readOnly"})>>
AccountInformationValidate == NoChecks
AccountInformationContextValidate ==
  [bic |-> {"readOnly"}, holderName |-> {"readOnly"}, iban |-> {"readOnly"}]

AccountTransaction ==
  <<Object("amount", "AmountValue", {"readOnly"}),
    Object("bookingDate", "DateString", {"readOnly"}),
    Value("bookingStatus", {"readOnly", "enum"}),
    Object("creditor", "AccountInformation", {"readOnly"}),
    Object("deptor", "AccountInformation", {"readOnly"}),
    Value("directDebitCreditorId", {"readOnly"}),
    Value("directDebitMandateId", {"readOnly"}), Value("endToEndReference", {"readOnly"}),
    Value("newTransaction", {"readOnly"}), Value("reference", {"readOnly"}),
    Value("remittanceInfo", {"readOnly"}),
    Object("remitter", "AccountInformation", {"readOnly"}),
    Object("transactionType", "EnumText", {"readOnly"}), Value("valutaDate", {"readOnly"})>>
AccountTransactionValidate ==
  [amount |-> {"nested"}, bookingDate |-> {"nested"}, bookingStatus |-> {"enum"},
   creditor |-> {"nested"}, deptor |-> {"nested"}, remitter |-> {"nested"},
   transactionType |-> {"nested"}]
AccountTransactionContextValidate ==
  [amount |-> {"nested"}, bookingDate |-> {"nested"}, bookingStatus |-> {"readOnly"},
   creditor |-> {"nested"}, deptor |-> {"nested"}, directDebitCreditorId |-> {"readOnly"},
   directDebitMandateId |-> {"readOnly"}, endToEndReference |-> {"readOnly"},
   newTransaction |-> {"readOnly"}, reference |-> {"readOnly"},
   remittanceInfo |-> {"readOnly"}, remitter |-> {"nested"},
   transactionType |-> {"nested"}, valutaDate |-> {"readOnly"}]

AmountValue ==
  <<Value("unit", {"readOnly", "minLength", "maxLength"}), Value("value", {"readOnly"})>>
AmountValueValidate == [unit |-> {"minLength", "maxLength"}]
AmountValueContextValidate == [unit |-> {"readOnly"}, value |-> {"readOnly"}]

Balance ==
  <<Object("accountBalance", "AccountBalance", {}),
    Object("cardBalance", "CardBalance", {}),
    Object("depotAggregation", "DepotAggregation", {}),
    Object("fixedTermSavings", "FixedTermSavings", {}),
    Object("installmentLoanBalance", "InstallmentLoanBalance", {})>>
BalanceValidate ==
  [accountBalance |-> {"nested"}, cardBalance |-> {"nested"},
   depotAggregation |-> {"nested"}, fixedTermSavings |-> {"nested"},
   installmentLoanBalance |-> {"nested"}]
BalanceContextValidate ==
  [accountBalance |-> {"nested"}, cardBalance |-> {"nested"},
   depotAggregation |-> {"nested"}, fixedTermSavings |-> {"nested"},
   installmentLoanBalance |-> {"nested"}]

BusinessMessage ==
  <<Value("args", {}), Value("key", {"enum"}), Value("message", {}), Value("origin", {}),
    Value("severity", {"enum"})>>
BusinessMessageValidate == [key |-> {"enum"}, severity |-> {"enum"}]
BusinessMessageContextValidate == NoChecks

Card ==
  <<Value("cardDisplayId", {"readOnly"}), Value("cardId", {"readOnly"}),
    Object("cardImage", "VisaCardImage", {"readOnly"}),
    Object("cardLimit", "AmountValue", {}), Object("cardType", "EnumText", {"readOnly"}),
    Value("cardValidity", {"readOnly"}), Value("clientId", {"readOnly"}),
    Value("holderName", {"readOnly"}), Value("participantId", {"readOnly"}),
    Value("primaryAccountNumberSuffix", {"readOnly"}),
    Value("settlementAccountId", {"readOnly"}), Value("status", {"enum"})>>
CardValidate ==
  [cardImage |-> {"nested"}, cardLimit |-> {"nested"}, cardType |-> {"nested"},
   status |-> {"enum"}]
CardContextValidate ==
  [cardDisplayId |-> {"readOnly"}, cardId |-> {"readOnly"}, cardImage |-> {"nested"},
   cardLimit |-> {"nested"}, cardType |-> {"nested"}, cardValidity |-> {"readOnly"},
   clientId |-> {"readOnly"}, holderName |-> {"readOnly"}, participantId |-> {"readOnly"},
   primaryAccountNumberSuffix |-> {"readOnly"}, settlementAccountId |-> {"readOnly"}]

CardBalance ==
  <<Object("availableCashAmount", "AmountValue", {"readOnly"}),
    Object("balance", "AmountValue", {"readOnly"}), Object("card", "Card", {"readOnly"}),
    Value("cardId", {"readOnly"})>>
CardBalanceValidate ==
  [availableCashAmount |-> {"nested"}, balance |-> {"nested"}, card |-> {"nested"}]
CardBalanceContextValidate ==
  [availableCashAmount |-> {"nested"}, balance |-> {"nested"}, card |-> {"nested"},
   cardId |-> {"readOnly"}]

CostEntry ==
  <<Object("amount", "AmountValue", {"readOnly"}),
    Object("amountReportingCurrency", "AmountValue", {"readOnly"}),
    Object("inducement", "Inducement", {"readOnly"}), Value("label", {"readOnly"}),
    Value("type", {"readOnly", "enum"})>>
CostEntryValidate ==
  [amount |-> {"nested"}, amountReportingCurrency |-> {"nested"},
   inducement |-> {"nested"}, type |-> {"enum"}]
CostEntryContextValidate ==
  [amount |-> {"nested"}, amountReportingCurrency |-> {"nested"},
   inducement |-> {"nested"}, label |-> {"readOnly"}, type |-> {"readOnly"}]

CostGroup ==
  <<List("costs", "CostEntry", {"readOnly"}), Value("label", {"readOnly"}),
    Object("sum", "AmountValue", {"readOnly"}),
    Object("sumReportingCurrency", "AmountValue", {"readOnly"}),
    Value("type", {"readOnly", "enum"})>>
CostGroupValidate ==
  [costs |-> {"each"}, sum |-> {"nested"}, sumReportingCurrency |-> {"nested"},
   type |-> {"enum"}]
CostGroupContextValidate ==
  [costs |-> {"readOnly", "each"}, label |-> {"readOnly"}, sum |-> {"nested"},
   sumReportingCurrency |-> {"nested"}, type |-> {"readOnly"}]

CostIndicationExAnte ==
  <<Value("calculationSuccessful", {"readOnly"}), Value("depotId", {"readOnly"}),
    Object("expectedSettlementCosts", "AmountValue", {"readOnly"}),
    Object("expectedValue", "AmountValue", {"readOnly"}),
    Object("fxRate", "FXRateEUR", {"readOnly"}),
    Object("holdingCosts", "CostGroup", {"readOnly"}), Value("holdingPeriod", {"readOnly"}),
    Object("limit", "AmountValue", {"readOnly"}), Value("linkCosts", {"readOnly"}),
    Value("linkKid", {"readOnly"}), Value("name", {"readOnly"}),
    Object("purchaseCosts", "CostGroup", {"readOnly"}),
    Object("quantity", "AmountValue", {"readOnly"}),
    Object("reportingCurrency", "CurrencyString", {"readOnly"}),
    Object("salesCosts", "CostGroup", {"readOnly"}),
    Object("settlementCurrency", "CurrencyString", {"readOnly"}),
    Value("side", {"readOnly", "enum"}),
    Object("totalCostsAbs", "AmountValue", {"readOnly"}),
    Object("totalCostsDetail", "TotalCostBlock", {"readOnly"}),
    Object("totalCostsRel", "PercentageString", {"readOnly"}),
    Object("totalHoldingCosts", "TotalHoldingCostBlock", {"readOnly"}),
    Object("tradingCurrency", "CurrencyString", {"readOnly"}),
    Value("venueName", {"readOnly"}), Value("wkn", {"readOnly"})>>
CostIndicationExAnteValidate ==
  [expectedSettlementCosts |-> {"nested"}, expectedValue |-> {"nested"},
   fxRate |-> {"nested"}, holdingCosts |-> {"nested"}, limit |-> {"nested"},
   purchaseCosts |-> {"nested"}, quantity |-> {"nested"}, reportingCurrency |-> {"nested"},
   salesCosts |-> {"nested"}, settlementCurrency |-> {"nested"}, side |-> {"enum"},
   totalCostsAbs |-> {"nested"}, totalCostsDetail |-> {"nested"},
   totalCostsRel |-> {"nested"}, totalHoldingCosts |-> {"nested"},
   tradingCurrency |-> {"nested"}]
CostIndicationExAnteContextValidate ==
  [calculationSuccessful |-> {"readOnly"}, depotId |-> {"readOnly"},
   expectedSettlementCosts |-> {"nested"}, expectedValue |-> {"nested"},
   fxRate |-> {"nested"}, holdingCosts |-> {"nested"}, holdingPeriod |-> {"readOnly"},
   limit |-> {"nested"}, linkCosts |-> {"readOnly"}, linkKid |-> {"readOnly"},
   name |-> {"readOnly"}, purchaseCosts |-> {"nested"}, quantity |-> {"nested"},
   reportingCurrency |-> {"nested"}, salesCosts |-> {"nested"},
   settlementCurrency |-> {"nested"}, side |-> {"readOnly"}, totalCostsAbs |-> {"nested"},
   totalCostsDetail |-> {"nested"}, totalCostsRel |-> {"nested"},
   totalHoldingCosts |-> {"nested"}, tradingCurrency |-> {"nested"},
   venueName |-> {"readOnly"}, wkn |-> {"readOnly"}]

CurrencyString == <<Value("Currency", {"minLength", "maxLength"})>>
CurrencyStringValidate == [Currency |-> {"minLength", "maxLength"}]
CurrencyStringContextValidate == NoChecks

DateString == <<Value("date", {"format"})>>
DateStringValidate == [date |-> {"format"}]
DateStringContextValidate == NoChecks

DateTimeString == <<Value("dateTime", {"format"})>>
DateTimeStringValidate == [dateTime |-> {"format"}]
DateTimeStringContextValidate == NoChecks

Depot ==
  <<Value("clientId", {"readOnly"}), Value("defaultSettlementAccountId", {"readOnly"}),
    Value("depotDisplayId", {"readOnly"}), Value("depotId", {"readOnly"}),
    Value("settlementAccountIds", {"readOnly"})>>
DepotValidate == NoChecks
DepotContextValidate ==
  [clientId |-> {"readOnly"}, defaultSettlementAccountId |-> {"readOnly"},
   depotDisplayId |-> {"readOnly"}, depotId |-> {"readOnly"},
   settlementAccountIds |-> {"readOnly"}]

DepotAggregation ==
  <<Object("currentValue", "AmountValue", {"readOnly"}),
    Value("dateLastUpdate", {"readOnly"}), Object("depot", "Depot", {"readOnly"}),
    Value("depotId", {"readOnly"}), Object("lendingValue", "AmountValue", {"readOnly"}),
    Object("prevDayValue", "AmountValue", {"readOnly"}),
    Object("profitLossPrevDayAbs", "AmountValue", {"readOnly"}),
    Object("profitLossPrevDayRel", "PercentageString", {"readOnly"}),
    Object("profitLossPurchaseAbs", "AmountValue", {"readOnly"}),
    Object("profitLossPurchaseRel", "PercentageString", {"readOnly"}),
    Object("purchaseValue", "AmountValue", {"readOnly"})>>
DepotAggregationValidate ==
  [currentValue |-> {"nested"}, depot |-> {"nested"}, lendingValue |-> {"nested"},
   prevDayValue |-> {"nested"}, profitLossPrevDayAbs |-> {"nested"},
   profitLossPrevDayRel |-> {"nested"}, profitLossPurchaseAbs |-> {"nested"},
   profitLossPurchaseRel |-> {"nested"}, purchaseValue |-> {"nested"}]
DepotAggregationContextValidate ==
  [currentValue |-> {"nested"}, dateLastUpdate |-> {"readOnly"}, depot |-> {"nested"},
   depotId |-> {"readOnly"}, lendingValue |-> {"nested"}, prevDayValue |-> {"nested"},
   profitLossPrevDayAbs |-> {"nested"}, profitLossPrevDayRel |-> {"nested"},
   profitLossPurchaseAbs |-> {"nested"}, profitLossPurchaseRel |-> {"nested"},
   purchaseValue |-> {"nested"}]

DepotPosition ==
  <<Object("availableQuantity", "AmountValue", {"readOnly"}),
    Object("currentPrice", "Price", {"readOnly"}),
    Object("currentValue", "AmountValue", {"readOnly"}), Value("custodyType", {"readOnly"}),
    Value("depotId", {"readOnly"}), Object("instrument", "Instrument", {"readOnly"}),
    Value("positionId", {"readOnly"}), Object("prevDayPrice", "Price", {"readOnly"}),
    Object("prevDayValue", "AmountValue", {"readOnly"}),
    Object("profitLossPrevDayAbs", "AmountValue", {"readOnly"}),
    Object("profitLossPrevDayRel", "PercentageString", {"readOnly"}),
    Object("profitLossPurchaseAbs", "AmountValue", {"readOnly"}),
    Object("profitLossPurchaseRel", "PercentageString", {"readOnly"}),
    Object("purchasePrice", "AmountValue", {"readOnly"}),
    Object("purchaseValue", "AmountValue", {"readOnly"}),
    Object("quantity", "AmountValue", {"readOnly"}), Value("version", {"readOnly"}),
    Value("wkn", {"readOnly"})>>
DepotPositionValidate ==
  [availableQuantity |-> {"nested"}, currentPrice |-> {"nested"},
   currentValue |-> {"nested"}, instrument |-> {"nested"}, prevDayPrice |-> {"nested"},
   prevDayValue |-> {"nested"}, profitLossPrevDayAbs |-> {"nested"},
   profitLossPrevDayRel |-> {"nested"}, profitLossPurchaseAbs |-> {"nested"},
   profitLossPurchaseRel |-> {"nested"}, purchasePrice |-> {"nested"},
   purchaseValue |-> {"nested"}, quantity |-> {"nested"}]
DepotPositionContextValidate ==
  [availableQuantity |-> {"nested"}, currentPrice |-> {"nested"},
   currentValue |-> {"nested"}, custodyType |-> {"readOnly"}, depotId |-> {"readOnly"},
   instrument |-> {"nested"}, positionId |-> {"readOnly"}, prevDayPrice |-> {"nested"},
   prevDayValue |-> {"nested"}, profitLossPrevDayAbs |-> {"nested"},
   profitLossPrevDayRel |-> {"nested"}, profitLossPurchaseAbs |-> {"nested"},
   profitLossPurchaseRel |-> {"nested"}, purchasePrice |-> {"nested"},
   purchaseValue |-> {"nested"}, quantity |-> {"nested"}, version |-> {"readOnly"},
   wkn |-> {"readOnly"}]

DepotTransaction ==
  <<Object("bookingDate", "DateString", {"readOnly"}),
    Value("bookingStatus", {"readOnly", "enum"}),
    Object("businessDate", "DateString", {"readOnly"}),
    Object("executionPrice", "AmountValue", {"readOnly"}),
    Object("fxRate", "FXRateEUR", {"readOnly"}),
    Object("instrument", "Instrument", {"readOnly"}), Value("instrumentId", {"readOnly"}),
    Object("quantity", "AmountValue", {"readOnly"}),
    Object("settlementDate", "DateTimeString", {"readOnly"}),
    Value("transactionDirection", {"readOnly", "enum"}),
    Value("transactionId", {"readOnly"}), Value("transactionType", {"readOnly", "enum"}),
    Object("transactionValue", "AmountValue", {"readOnly"})>>
DepotTransactionValidate ==
  [bookingDate |-> {"nested"}, bookingStatus |-> {"enum"}, businessDate |-> {"nested"},
   executionPrice |-> {"nested"}, fxRate |-> {"nested"}, instrument |-> {"nested"},
   quantity |-> {"nested"}, settlementDate |-> {"nested"},
   transactionDirection |-> {"enum"}, transactionType |-> {"enum"},
   transactionValue |-> {"nested"}]
DepotTransactionContextValidate ==
  [bookingDate |-> {"nested"}, bookingStatus |-> {"readOnly"}, businessDate |-> {"nested"},
   executionPrice |-> {"nested"}, fxRate |-> {"nested"}, instrument |-> {"nested"},
   instrumentId |-> {"readOnly"}, quantity |-> {"nested"}, settlementDate |-> {"nested"},
   transactionDirection |-> {"readOnly"}, transactionId |-> {"readOnly"},
   transactionType |-> {"readOnly"}, transactionValue |-> {"nested"}]

DerivativeData ==
  <<Value("certificateType", {"readOnly", "enum"}), Value("expiryDate", {"readOnly"}),
    Value("interestPaymentDate", {"readOnly"}),
    Value("interestPaymentInterval", {"readOnly", "enum"}), Value("leverage", {"readOnly"}),
    Value("maturityDate", {"readOnly"}), Value("multiplier", {"readOnly"}),
    Value("nominalRate", {"readOnly"}), Object("rating", "Rating", {"readOnly"}),
    Value("remainingTermInYears", {"readOnly"}),
    Object("strikePrice", "AmountValue", {"readOnly"}),
    Object("underlyingInstrument", "Instrument", {"readOnly"}),
    Object("underlyingPrice", "Price", {"readOnly"}),
    Value("warrantType", {"readOnly", "enum"}), Value("yieldPA", {"readOnly"})>>
DerivativeDataValidate ==
  [certificateType |-> {"enum"}, interestPaymentInterval |-> {"enum"},
   rating |-> {"nested"}, strikePrice |-> {"nested"}, underlyingInstrument |-> {"nested"},
   underlyingPrice |-> {"nested"}, warrantType |-> {"enum"}]
DerivativeDataContextValidate ==
  [certificateType |-> {"readOnly"}, expiryDate |-> {"readOnly"},
   interestPaymentDate |-> {"readOnly"}, interestPaymentInterval |-> {"readOnly"},
   leverage |-> {"readOnly"}, maturityDate |-> {"readOnly"}, multiplier |-> {"readOnly"},
   nominalRate |-> {"readOnly"}, rating |-> {"nested"},
   remainingTermInYears |-> {"readOnly"}, strikePrice |-> {"nested"},
   underlyingInstrument |-> {"nested"}, underlyingPrice |-> {"nested"},
   warrantType |-> {"readOnly"}, yieldPA |-> {"readOnly"}]

Dimensions == <<List("venues", "Venue", {})>>
DimensionsValidate == [venues |-> {"each"}]
DimensionsContextValidate == [venues |-> {"each"}]

Document ==
  <<Value("advertisement", {"readOnly"}), Value("dateCreation", {"readOnly"}),
    Value("deletable", {"readOnly"}), Value("documentId", {"readOnly"}),
    Object("documentMetaData", "DocumentMetadata", {"readOnly"}),
    Value("mimeType", {"readOnly"}), Value("name", {"readOnly", "maxLength"})>>
DocumentValidate == [documentMetaData |-> {"nested"}, name |-> {"maxLength"}]
DocumentContextValidate ==
  [advertisement |-> {"readOnly"}, dateCreation |-> {"readOnly"},
   deletable |-> {"readOnly"}, documentId |-> {"readOnly"},
   documentMetaData |-> {"nested"}, mimeType |-> {"readOnly"}, name |-> {"readOnly"}]

DocumentMetadata ==
  <<Value("alreadyRead", {"readOnly"}), Value("archived", {"readOnly"}),
    Value("dateRead", {"readOnly"}), Value("predocumentExists", {})>>
DocumentMetadataValidate == NoChecks
DocumentMetadataContextValidate ==
  [alreadyRead |-> {"readOnly"}, archived |-> {"readOnly"}, dateRead |-> {"readOnly"}]

EnumText ==
  <<Value("key", {"readOnly", "maxLength"}), Value("text", {"readOnly", "maxLength"})>>
EnumTextValidate == [key |-> {"maxLength"}, text |-> {"maxLength"}]
EnumTextContextValidate == [key |-> {"readOnly"}, text |-> {"readOnly"}]

Execution ==
  <<Object("executedQuantity", "AmountValue", {"readOnly"}),
    Value("executionId", {"readOnly", "maxLength"}), Value("executionNumber", {"readOnly"}),
    Object("executionPrice", "AmountValue", {"readOnly"}),
    Object("executionTimestamp", "TimestampString", {"readOnly"})>>
ExecutionValidate ==
  [executedQuantity |-> {"nested"}, executionId |-> {"maxLength"},
   executionPrice |-> {"nested"}, executionTimestamp |-> {"nested"}]
ExecutionContextValidate ==
  [executedQuantity |-> {"nested"}, executionId |-> {"readOnly"},
   executionNumber |-> {"readOnly"}, executionPrice |-> {"nested"},
   executionTimestamp |-> {"nested"}]

FXRateEUR ==
  <<Object("ask", "AmountValue", {"readOnly"}), Object("bid", "AmountValue", {"readOnly"})>>
FXRateEURValidate == [ask |-> {"nested"}, bid |-> {"nested"}]
FXRateEURContextValidate == [ask |-> {"nested"}, bid |-> {"nested"}]

FixedTermSavings ==
  <<Value("contractPeriodInMonths", {"readOnly"}), Value("creationDate", {"readOnly"}),
    Value("expirationDate", {"readOnly"}), Value("extendable", {"readOnly"}),
    Value("fixedTermSavingsDisplayName", {"readOnly"}),
    Value("fixedTermSavingsId", {"readOnly"}),
    Value("fixedTermSavingsType", {"readOnly", "enum"}),
    Value("interestRate", {"readOnly"}),
    Object("prolongationAmount", "AmountValue", {"readOnly"}),
    Object("savingsAmount", "AmountValue", {"readOnly"})>>
FixedTermSavingsValidate ==
  [fixedTermSavingsType |-> {"enum"}, prolongationAmount |-> {"nested"},
   savingsAmount |-> {"nested"}]
FixedTermSavingsContextValidate ==
  [contractPeriodInMonths |-> {"readOnly"}, creationDate |-> {"readOnly"},
   expirationDate |-> {"readOnly"}, extendable |-> {"readOnly"},
   fixedTermSavingsDisplayName |-> {"readOnly"}, fixedTermSavingsId |-> {"readOnly"},
   fixedTermSavingsType |-> {"readOnly"}, interestRate |-> {"readOnly"},
   prolongationAmount |-> {"nested"}, savingsAmount |-> {"nested"}]

FundDistribution ==
  <<Value("bonification", {"readOnly"}), Value("currency", {"readOnly"}),
    Value("discountIssueSurcharge", {"readOnly"}), Value("fundFlags", {"readOnly"}),
    Value("fundStatus", {"readOnly", "enum"}),
    Value("individualIssueSurcharge", {"readOnly"}),
    Value("investmentCategory", {"readOnly"}),
    Value("isIndividualIssueSurchargeCorrected", {"readOnly"}),
    Object("rating", "Rating", {"readOnly"}), Value("reducedIssueSurcharge", {"readOnly"}),
    Value("regularIssueSurcharge", {"readOnly"}), Value("totalExpenseRatio", {"readOnly"})>>
FundDistributionValidate == [fundStatus |-> {"enum"}, rating |-> {"nested"}]
FundDistributionContextValidate ==
  [bonification |-> {"readOnly"}, currency |-> {"readOnly"},
   discountIssueSurcharge |-> {"readOnly"}, fundFlags |-> {"readOnly"},
   fundStatus |-> {"readOnly"}, individualIssueSurcharge |-> {"readOnly"},
   investmentCategory |-> {"readOnly"},
   isIndividualIssueSurchargeCorrected |-> {"readOnly"}, rating |-> {"nested"},
   reducedIssueSurcharge |-> {"readOnly"}, regularIssueSurcharge |-> {"readOnly"},
   totalExpenseRatio |-> {"readOnly"}]

Inducement ==
  <<Object("amount", "AmountValue", {"readOnly"}), Value("estimated", {"readOnly"})>>
InducementValidate == [amount |-> {"nested"}]
InducementContextValidate == [amount |-> {"nested"}, estimated |-> {"readOnly"}]

InstallmentLoan ==
  <<Value("contractConclusionDate", {"readOnly"}),
    Value("contractPeriodInMonths", {"readOnly"}),
    Object("creditAmount", "AmountValue", {"readOnly"}),
    Value("effectiveInterest", {"readOnly"}),
    Object("installmentAmount", "AmountValue", {"readOnly"}),
    Value("installmentLoanId", {"readOnly"}),
    Object("netCreditAmount", "AmountValue", {"readOnly"}),
    Value("nominalInterest", {"readOnly"}),
    Object("paidOutAmount", "AmountValue", {"readOnly"}),
    Value("productDisplayId", {"readOnly"})>>
InstallmentLoanValidate ==
  [creditAmount |-> {"nested"}, installmentAmount |-> {"nested"},
   netCreditAmount |-> {"nested"}, paidOutAmount |-> {"nested"}]
InstallmentLoanContextValidate ==
  [contractConclusionDate |-> {"readOnly"}, contractPeriodInMonths |-> {"readOnly"},
   creditAmount |-> {"nested"}, effectiveInterest |-> {"readOnly"},
   installmentAmount |-> {"nested"}, installmentLoanId |-> {"readOnly"},
   netCreditAmount |-> {"nested"}, nominalInterest |-> {"readOnly"},
   paidOutAmount |-> {"nested"}, productDisplayId |-> {"readOnly"}]

InstallmentLoanBalance ==
  <<Object("balance", "AmountValue", {"readOnly"}),
    Object("installmentLoan", "InstallmentLoan", {"readOnly"}),
    Value("installmentLoanId", {"readOnly"})>>
InstallmentLoanBalanceValidate == [balance |-> {"nested"}, installmentLoan |-> {"nested"}]
InstallmentLoanBalanceContextValidate ==
  [balance |-> {"nested"}, installmentLoan |-> {"nested"},
   installmentLoanId |-> {"readOnly"}]

Instrument ==
  <<Object("derivativeData", "DerivativeData", {"readOnly"}),
    Object("fundsDistribution", "FundDistribution", {"readOnly"}),
    Value("instrumentId", {"readOnly"}), Value("isin", {"readOnly"}),
    Value("mnemonic", {"readOnly"}), Value("name", {"readOnly"}),
    Object("orderDimensions", "Dimensions", {"readOnly"}), Value("shortName", {"readOnly"}),
    Object("staticData", "StaticData", {"readOnly"}), Value("wkn", {"readOnly"})>>
InstrumentValidate ==
  [derivativeData |-> {"nested"}, fundsDistribution |-> {"nested"},
   orderDimensions |-> {"nested"}, staticData |-> {"nested"}]
InstrumentContextValidate ==
  [derivativeData |-> {"nested"}, fundsDistribution |-> {"nested"},
   instrumentId |-> {"readOnly"}, isin |-> {"readOnly"}, mnemonic |-> {"readOnly"},
   name |-> {"readOnly"}, orderDimensions |-> {"nested"}, shortName |-> {"readOnly"},
   staticData |-> {"nested"}, wkn |-> {"readOnly"}]

ListResourceAccountBalance ==
  <<Value("aggregated", {}), Object("paging", "PagingInfo", {}),
    List("values", "AccountBalance", {})>>
ListResourceAccountBalanceValidate == [paging |-> {"nested"}, values |-> {"each"}]
ListResourceAccountBalanceContextValidate == [paging |-> {"nested"}, values |-> {"each"}]

ListResourceAccountTransaction ==
  <<Value("aggregated", {}), Object("paging", "PagingInfo", {}),
    List("values", "AccountTransaction", {})>>
ListResourceAccountTransactionValidate == [paging |-> {"nested"}, values |-> {"each"}]
ListResourceAccountTransactionContextValidate ==
  [paging |-> {"nested"}, values |-> {"each"}]

ListResourceCostIndicationExAnte ==
  <<Value("aggregated", {}), Object("paging", "PagingInfo", {}),
    List("values", "CostIndicationExAnte", {})>>
ListResourceCostIndicationExAnteValidate == [paging |-> {"nested"}, values |-> {"each"}]
ListResourceCostIndicationExAnteContextValidate ==
  [paging |-> {"nested"}, values |-> {"each"}]

ListResourceDepot ==
  <<Value("aggregated", {}), Object("paging", "PagingInfo", {}), List("values", "Depot", {})>>
ListResourceDepotValidate == [paging |-> {"nested"}, values |-> {"each"}]
ListResourceDepotContextValidate == [paging |-> {"nested"}, values |-> {"each"}]

ListResourceDepotPosition ==
  <<Value("aggregated", {}), Object("paging", "PagingInfo", {}),
    List("values", "DepotPosition", {})>>
ListResourceDepotPositionValidate == [paging |-> {"nested"}, values |-> {"each"}]
ListResourceDepotPositionContextValidate == [paging |-> {"nested"}, values |-> {"each"}]

ListResourceDepotTransaction ==
  <<Value("aggregated", {}), Object("paging", "PagingInfo", {}),
    List("values", "DepotTransaction", {})>>
ListResourceDepotTransactionValidate == [paging |-> {"nested"}, values |-> {"each"}]
ListResourceDepotTransactionContextValidate == [paging |-> {"nested"}, values |-> {"each"}]

ListResourceDimensions ==
  <<Value("aggregated", {}), Object("paging", "PagingInfo", {}),
    List("values", "Dimensions", {})>>
ListResourceDimensionsValidate == [paging |-> {"nested"}, values |-> {"each"}]
ListResourceDimensionsContextValidate == [paging |-> {"nested"}, values |-> {"each"}]

ListResourceDocument ==
  <<Value("aggregated", {}), Object("paging", "PagingInfo", {}),
    List("values", "Document", {})>>
ListResourceDocumentValidate == [paging |-> {"nested"}, values |-> {"each"}]
ListResourceDocumentContextValidate == [paging |-> {"nested"}, values |-> {"each"}]

ListResourceInstrument ==
  <<Value("aggregated", {}), Object("paging", "PagingInfo", {}),
    List("values", "Instrument", {})>>
ListResourceInstrumentValidate == [paging |-> {"nested"}, values |-> {"each"}]
ListResourceInstrumentContextValidate == [paging |-> {"nested"}, values |-> {"each"}]

ListResourceOrder ==
  <<Value("aggregated", {}), Object("paging", "PagingInfo", {}), List("values", "Order", {})>>
ListResourceOrderValidate == [paging |-> {"nested"}, values |-> {"each"}]
ListResourceOrderContextValidate == [paging |-> {"nested"}, values |-> {"each"}]

ListResourceProductBalance ==
  <<Value("aggregated", {}), Object("paging", "PagingInfo", {}),
    List("values", "ProductBalance", {})>>
ListResourceProductBalanceValidate == [paging |-> {"nested"}, values |-> {"each"}]
ListResourceProductBalanceContextValidate == [paging |-> {"nested"}, values |-> {"each"}]

Order ==
  <<Value("bestEx", {}), Object("cancelledQuantity", "AmountValue", {}),
    Object("creationTimestamp", "TimestampString", {"readOnly"}),
    Value("depotId", {"maxLength"}), Object("executedQuantity", "AmountValue", {}),
    List("executions", "Execution", {"readOnly"}),
    Object("expectedValue", "AmountValue", {"readOnly"}),
    Value("instrumentId", {"maxLength"}), Value("legNumber", {"readOnly"}),
    Object("limit", "AmountValue", {}), Value("limitExtension", {"maxLength", "enum"}),
    Object("openQuantity", "AmountValue", {}), Value("orderId", {"readOnly", "maxLength"}),
    Value("orderStatus", {"readOnly", "maxLength", "enum"}),
    Value("orderType", {"maxLength", "enum"}), Object("quantity", "AmountValue", {}),
    Value("quoteId", {"maxLength"}), Value("quoteTicketId", {"maxLength"}),
    Value("settlementAccountId", {"maxLength"}), Value("side", {"maxLength", "enum"}),
    List("subOrders", "Order", {}), Value("tradingRestriction", {"maxLength", "enum"}),
    Object("trailingLimitDistAbs", "AmountValue", {}),
    Object("trailingLimitDistRel", "PercentageString", {}),
    Object("triggerLimit", "AmountValue", {}), Object("validity", "DateString", {}),
    Value("validityType", {"maxLength", "enum"}), Value("venueId", {"maxLength"}),
    Value("version", {})>>
OrderValidate ==
  [cancelledQuantity |-> {"nested"}, creationTimestamp |-> {"nested"},
   depotId |-> {"maxLength"}, executedQuantity |-> {"nested"}, executions |-> {"each"},
   expectedValue |-> {"nested"}, instrumentId |-> {"maxLength"}, limit |-> {"nested"},
   limitExtension |-> {"maxLength", "enum"}, openQuantity |-> {"nested"},
   orderId |-> {"maxLength"}, orderStatus |-> {"maxLength", "enum"},
   orderType |-> {"maxLength", "enum"}, quantity |-> {"nested"}, quoteId |-> {"maxLength"},
   quoteTicketId |-> {"maxLength"}, settlementAccountId |-> {"maxLength"},
   side |-> {"maxLength", "enum"}, subOrders |-> {"each"},
   tradingRestriction |-> {"maxLength", "enum"}, trailingLimitDistAbs |-> {"nested"},
   trailingLimitDistRel |-> {"nested"}, triggerLimit |-> {"nested"},
   validity |-> {"nested"}, validityType |-> {"maxLength", "enum"},
   venueId |-> {"maxLength"}]
OrderContextValidate ==
  [cancelledQuantity |-> {"nested"}, creationTimestamp |-> {"nested"},
   executedQuantity |-> {"nested"}, executions |-> {"readOnly", "each"},
   expectedValue |-> {"nested"}, legNumber |-> {"readOnly"}, limit |-> {"nested"},
   openQuantity |-> {"nested"}, orderId |-> {"readOnly"}, orderStatus |-> {"readOnly"},
   quantity |-> {"nested"}, subOrders |-> {"each"}, trailingLimitDistAbs |-> {"nested"},
   trailingLimitDistRel |-> {"nested"}, triggerLimit |-> {"nested"},
   validity |-> {"nested"}]

OrderType ==
  <<Value("limitExtensions", {"readOnly"}), Value("tradingRestrictions", {"readOnly"})>>
OrderTypeValidate == NoChecks
OrderTypeContextValidate ==
  [limitExtensions |-> {"readOnly"}, tradingRestrictions |-> {"readOnly"}]

PagingInfo == <<Value("index", {}), Value("matches", {})>>
PagingInfoValidate == NoChecks
PagingInfoContextValidate == NoChecks

PercentageString ==
  <<Value("decimalPlaces", {"pattern"}), Value("percentString", {}),
    Value("preDecimalPlaces", {"maxLength", "pattern"})>>
PercentageStringValidate ==
  [decimalPlaces |-> {"pattern"}, preDecimalPlaces |-> {"maxLength", "pattern"}]
PercentageStringContextValidate == NoChecks

Price ==
  <<Object("price", "AmountValue", {"readOnly"}),
    Object("priceDateTime", "DateTimeString", {"readOnly"}),
    Object("quantity", "AmountValue", {"readOnly"}),
    Value("type", {"readOnly", "minLength", "maxLength"})>>
PriceValidate ==
  [price |-> {"nested"}, priceDateTime |-> {"nested"}, quantity |-> {"nested"},
   type |-> {"minLength", "maxLength"}]
PriceContextValidate ==
  [price |-> {"nested"}, priceDateTime |-> {"nested"}, quantity |-> {"nested"},
   type |-> {"readOnly"}]

ProductBalance ==
  <<Object("balance", "Balance", {"readOnly"}),
    Value("clientConnectionType", {"readOnly", "enum"}), Value("productId", {"readOnly"}),
    Value("productType", {"readOnly", "enum"}), Value("targetClientId", {"readOnly"})>>
ProductBalanceValidate ==
  [balance |-> {"nested"}, clientConnectionType |-> {"enum"}, productType |-> {"enum"}]
ProductBalanceContextValidate ==
  [balance |-> {"nested"}, clientConnectionType |-> {"readOnly"},
   productId |-> {"readOnly"}, productType |-> {"readOnly"},
   targetClientId |-> {"readOnly"}]

Quote ==
  <<Value("depotId", {"maxLength"}), Value("instrumentId", {"maxLength"}),
    Object("quantity", "AmountValue", {}), Value("side", {"maxLength", "enum"}),
    Value("venueId", {"maxLength"})>>
QuoteValidate ==
  [depotId |-> {"maxLength"}, instrumentId |-> {"maxLength"}, quantity |-> {"nested"},
   side |-> {"maxLength", "enum"}, venueId |-> {"maxLength"}]
QuoteContextValidate == [quantity |-> {"nested"}]

Rating == <<Value("moodys", {"readOnly"}), Value("morningstar", {"readOnly"})>>
RatingValidate == NoChecks
RatingContextValidate == [moodys |-> {"readOnly"}, morningstar |-> {"readOnly"}]

Session ==
  <<Value("activated2FA", {}), Value("id", {}), Value("identifier", {}),
    Value("sessionTanActive", {})>>
SessionValidate == NoChecks
SessionContextValidate == NoChecks

StandardErrorResponse == <<Value("code", {}), List("messages", "BusinessMessage", {})>>
StandardErrorResponseValidate == [messages |-> {"each"}]
StandardErrorResponseContextValidate == [messages |-> {"each"}]

StaticData ==
  <<Object("currency", "CurrencyString", {"readOnly"}),
    Value("fundRedemptionLimited", {"readOnly"}),
    Value("instrumentType", {"readOnly", "enum"}), Value("kidAvailable", {"readOnly"}),
    Value("notation", {"readOnly", "enum"}), Value("priipsRelevant", {"readOnly"}),
    Value("shippingWaiverRequired", {"readOnly"})>>
StaticDataValidate ==
  [currency |-> {"nested"}, instrumentType |-> {"enum"}, notation |-> {"enum"}]
StaticDataContextValidate ==
  [currency |-> {"nested"}, fundRedemptionLimited |-> {"readOnly"},
   instrumentType |-> {"readOnly"}, kidAvailable |-> {"readOnly"},
   notation |-> {"readOnly"}, priipsRelevant |-> {"readOnly"},
   shippingWaiverRequired |-> {"readOnly"}]

TimestampString == <<Value("timestamp", {"format"})>>
TimestampStringValidate == [timestamp |-> {"format"}]
TimestampStringContextValidate == NoChecks

TotalCostBlock ==
  <<Object("externalCosts", "TotalCostEntry", {"readOnly"}),
    Object("productCosts", "TotalCostEntry", {"readOnly"}),
    Object("serviceCosts", "TotalCostEntry", {"readOnly"}),
    Object("serviceInducement", "AmountValue", {"readOnly"})>>
TotalCostBlockValidate ==
  [externalCosts |-> {"nested"}, productCosts |-> {"nested"}, serviceCosts |-> {"nested"},
   serviceInducement |-> {"nested"}]
TotalCostBlockContextValidate ==
  [externalCosts |-> {"nested"}, productCosts |-> {"nested"}, serviceCosts |-> {"nested"},
   serviceInducement |-> {"nested"}]

TotalCostEntry ==
  <<Object("amount", "AmountValue", {"readOnly"}),
    Object("averageReturnPA", "PercentageString", {"readOnly"}),
    Value("label", {"readOnly"}), Value("type", {"readOnly", "enum"})>>
TotalCostEntryValidate ==
  [amount |-> {"nested"}, averageReturnPA |-> {"nested"}, type |-> {"enum"}]
TotalCostEntryContextValidate ==
  [amount |-> {"nested"}, averageReturnPA |-> {"nested"}, label |-> {"readOnly"},
   type |-> {"readOnly"}]

TotalHoldingCostBlock ==
  <<Object("sales", "TotalHoldingCostEntry", {"readOnly"}),
    Object("year1", "TotalHoldingCostEntry", {"readOnly"}),
    Object("year2", "TotalHoldingCostEntry", {"readOnly"})>>
TotalHoldingCostBlockValidate ==
  [sales |-> {"nested"}, year1 |-> {"nested"}, year2 |-> {"nested"}]
TotalHoldingCostBlockContextValidate ==
  [sales |-> {"nested"}, year1 |-> {"nested"}, year2 |-> {"nested"}]

TotalHoldingCostEntry ==
  <<Object("amount", "AmountValue", {"readOnly"}),
    Object("averageReturnPA", "PercentageString", {"readOnly"}),
    Value("type", {"readOnly", "enum"})>>
TotalHoldingCostEntryValidate ==
  [amount |-> {"nested"}, averageReturnPA |-> {"nested"}, type |-> {"enum"}]
TotalHoldingCostEntryContextValidate ==
  [amount |-> {"nested"}, averageReturnPA |-> {"nested"}, type |-> {"readOnly"}]

Venue ==
  <<Value("country", {}), List("currencies", "CurrencyString", {}), Value("name", {}),
    Map("orderTypes", "OrderType"), Value("sides", {}), Value("type", {}),
    Value("validityTypes", {}), Value("venueId", {})>>
VenueValidate == [currencies |-> {"each"}, orderTypes |-> {"required", "each"}]
VenueContextValidate == [currencies |-> {"each"}, orderTypes |-> {"each", "unnamed"}]

VisaCardImage ==
  <<Value("imageBaseFilename", {"readOnly"}), Value("imageDescription", {"readOnly"}),
    Value("visaCardImageId", {"readOnly"})>>
VisaCardImageValidate == NoChecks
VisaCardImageContextValidate ==
  [imageBaseFilename |-> {"readOnly"}, imageDescription |-> {"readOnly"},
   visaCardImageId |-> {"readOnly"}]

-----------------------------------------------------------------------------

\* The fields of every model, by its name ...
ApiModel ==
  [Account |-> Account, AccountBalance |-> AccountBalance,
   AccountInformation |-> AccountInformation, AccountTransaction |-> AccountTransaction,
   AmountValue |-> AmountValue, Balance |-> Balance, BusinessMessage |-> BusinessMessage,
   Card |-> Card, CardBalance |-> CardBalance, CostEntry |-> CostEntry,
   CostGroup |-> CostGroup, CostIndicationExAnte |-> CostIndicationExAnte,
   CurrencyString |-> CurrencyString, DateString |-> DateString,
   DateTimeString |-> DateTimeString, Depot |-> Depot,
   DepotAggregation |-> DepotAggregation, DepotPosition |-> DepotPosition,
   DepotTransaction |-> DepotTransaction, DerivativeData |-> DerivativeData,
   Dimensions |-> Dimensions, Document |-> Document, DocumentMetadata |-> DocumentMetadata,
   EnumText |-> EnumText, Execution |-> Execution, FXRateEUR |-> FXRateEUR,
   FixedTermSavings |-> FixedTermSavings, FundDistribution |-> FundDistribution,
   Inducement |-> Inducement, InstallmentLoan |-> InstallmentLoan,
   InstallmentLoanBalance |-> InstallmentLoanBalance, Instrument |-> Instrument,
   ListResourceAccountBalance |-> ListResourceAccountBalance,
   ListResourceAccountTransaction |-> ListResourceAccountTransaction,
   ListResourceCostIndicationExAnte |-> ListResourceCostIndicationExAnte,
   ListResourceDepot |-> ListResourceDepot,
   ListResourceDepotPosition |-> ListResourceDepotPosition,
   ListResourceDepotTransaction |-> ListResourceDepotTransaction,
   ListResourceDimensions |-> ListResourceDimensions,
   ListResourceDocument |-> ListResourceDocument,
   ListResourceInstrument |-> ListResourceInstrument,
   ListResourceOrder |-> ListResourceOrder,
   ListResourceProductBalance |-> ListResourceProductBalance, Order |-> Order,
   OrderType |-> OrderType, PagingInfo |-> PagingInfo,
   PercentageString |-> PercentageString, Price |-> Price,
   ProductBalance |-> ProductBalance, Quote |-> Quote, Rating |-> Rating,
   Session |-> Session, StandardErrorResponse |-> StandardErrorResponse,
   StaticData |-> StaticData, TimestampString |-> TimestampString,
   TotalCostBlock |-> TotalCostBlock, TotalCostEntry |-> TotalCostEntry,
   TotalHoldingCostBlock |-> TotalHoldingCostBlock,
   TotalHoldingCostEntry |-> TotalHoldingCostEntry, Venue |-> Venue,
   VisaCardImage |-> VisaCardImage]

\* ... its Validate ...
ApiValidator ==
  [Account |-> AccountValidate, AccountBalance |-> AccountBalanceValidate,
   AccountInformation |-> AccountInformationValidate,
   AccountTransaction |-> AccountTransactionValidate, AmountValue |-> AmountValueValidate,
   Balance |-> BalanceValidate, BusinessMessage |-> BusinessMessageValidate,
   Card |-> CardValidate, CardBalance |-> CardBalanceValidate,
   CostEntry |-> CostEntryValidate, CostGroup |-> CostGroupValidate,
   CostIndicationExAnte |-> CostIndicationExAnteValidate,
   CurrencyString |-> CurrencyStringValidate, DateString |-> DateStringValidate,
   DateTimeString |-> DateTimeStringValidate, Depot |-> DepotValidate,
   DepotAggregation |-> DepotAggregationValidate, DepotPosition |-> DepotPositionValidate,
   DepotTransaction |-> DepotTransactionValidate,
   DerivativeData |-> DerivativeDataValidate, Dimensions |-> DimensionsValidate,
   Document |-> DocumentValidate, DocumentMetadata |-> DocumentMetadataValidate,
   EnumText |-> EnumTextValidate, Execution |-> ExecutionValidate,
   FXRateEUR |-> FXRateEURValidate, FixedTermSavings |-> FixedTermSavingsValidate,
   FundDistribution |-> FundDistributionValidate, Inducement |-> InducementValidate,
   InstallmentLoan |-> InstallmentLoanValidate,
   InstallmentLoanBalance |-> InstallmentLoanBalanceValidate,
   Instrument |-> InstrumentValidate,
   ListResourceAccountBalance |-> ListResourceAccountBalanceValidate,
   ListResourceAccountTransaction |-> ListResourceAccountTransactionValidate,
   ListResourceCostIndicationExAnte |-> ListResourceCostIndicationExAnteValidate,
   ListResourceDepot |-> ListResourceDepotValidate,
   ListResourceDepotPosition |-> ListResourceDepotPositionValidate,
   ListResourceDepotTransaction |-> ListResourceDepotTransactionValidate,
   ListResourceDimensions |-> ListResourceDimensionsValidate,
   ListResourceDocument |-> ListResourceDocumentValidate,
   ListResourceInstrument |-> ListResourceInstrumentValidate,
   ListResourceOrder |-> ListResourceOrderValidate,
   ListResourceProductBalance |-> ListResourceProductBalanceValidate,
   Order |-> OrderValidate, OrderType |-> OrderTypeValidate,
   PagingInfo |-> PagingInfoValidate, PercentageString |-> PercentageStringValidate,
   Price |-> PriceValidate, ProductBalance |-> ProductBalanceValidate,
   Quote |-> QuoteValidate, Rating |-> RatingValidate, Session |-> SessionValidate,
   StandardErrorResponse |-> StandardErrorResponseValidate,
   StaticData |-> StaticDataValidate, TimestampString |-> TimestampStringValidate,
   TotalCostBlock |-> TotalCostBlockValidate, TotalCostEntry |-> TotalCostEntryValidate,
   TotalHoldingCostBlock |-> TotalHoldingCostBlockValidate,
   TotalHoldingCostEntry |-> TotalHoldingCostEntryValidate, Venue |-> VenueValidate,
   VisaCardImage |-> VisaCardImageValidate]

\* ... and its ContextValidate.
ApiContextValidator ==
  [Account |-> AccountContextValidate, AccountBalance |-> AccountBalanceContextValidate,
   AccountInformation |-> AccountInformationContextValidate,
   AccountTransaction |-> AccountTransactionContextValidate,
   AmountValue |-> AmountValueContextValidate, Balance |-> BalanceContextValidate,
   BusinessMessage |-> BusinessMessageContextValidate, Card |-> CardContextValidate,
   CardBalance |-> CardBalanceContextValidate, CostEntry |-> CostEntryContextValidate,
   CostGroup |-> CostGroupContextValidate,
   CostIndicationExAnte |-> CostIndicationExAnteContextValidate,
   CurrencyString |-> CurrencyStringContextValidate,
   DateString |-> DateStringContextValidate,
   DateTimeString |-> DateTimeStringContextValidate, Depot |-> DepotContextValidate,
   DepotAggregation |-> DepotAggregationContextValidate,
   DepotPosition |-> DepotPositionContextValidate,
   DepotTransaction |-> DepotTransactionContextValidate,
   DerivativeData |-> DerivativeDataContextValidate,
   Dimensions |-> DimensionsContextValidate, Document |-> DocumentContextValidate,
   DocumentMetadata |-> DocumentMetadataContextValidate,
   EnumText |-> EnumTextContextValidate, Execution |-> ExecutionContextValidate,
   FXRateEUR |-> FXRateEURContextValidate,
   FixedTermSavings |-> FixedTermSavingsContextValidate,
   FundDistribution |-> FundDistributionContextValidate,
   Inducement |-> InducementContextValidate,
   InstallmentLoan |-> InstallmentLoanContextValidate,
   InstallmentLoanBalance |-> InstallmentLoanBalanceContextValidate,
   Instrument |-> InstrumentContextValidate,
   ListResourceAccountBalance |-> ListResourceAccountBalanceContextValidate,
   ListResourceAccountTransaction |-> ListResourceAccountTransactionContextValidate,
   ListResourceCostIndicationExAnte |-> ListResourceCostIndicationExAnteContextValidate,
   ListResourceDepot |-> ListResourceDepotContextValidate,
   ListResourceDepotPosition |-> ListResourceDepotPositionContextValidate,
   ListResourceDepotTransaction |-> ListResourceDepotTransactionContextValidate,
   ListResourceDimensions |-> ListResourceDimensionsContextValidate,
   ListResourceDocument |-> ListResourceDocumentContextValidate,
   ListResourceInstrument |-> ListResourceInstrumentContextValidate,
   ListResourceOrder |-> ListResourceOrderContextValidate,
   ListResourceProductBalance |-> ListResourceProductBalanceContextValidate,
   Order |-> OrderContextValidate, OrderType |-> OrderTypeContextValidate,
   PagingInfo |-> PagingInfoContextValidate,
   PercentageString |-> PercentageStringContextValidate, Price |-> PriceContextValidate,
   ProductBalance |-> ProductBalanceContextValidate, Quote |-> QuoteContextValidate,
   Rating |-> RatingContextValidate, Session |-> SessionContextValidate,
   StandardErrorResponse |-> StandardErrorResponseContextValidate,
   StaticData |-> StaticDataContextValidate,
   TimestampString |-> TimestampStringContextValidate,
   TotalCostBlock |-> TotalCostBlockContextValidate,
   TotalCostEntry |-> TotalCostEntryContextValidate,
   TotalHoldingCostBlock |-> TotalHoldingCostBlockContextValidate,
   TotalHoldingCostEntry |-> TotalHoldingCostEntryContextValidate,
   Venue |-> VenueContextValidate, VisaCardImage |-> VisaCardImageContextValidate]
=============================================================================
